---- MODULE Spec2Model ----
(***************************************************************************)
(* cv-matcher: the keyword matcher (src/src/utils/keyword_matcher.py), the *)
(* highlighter, the two ATS scoring formulas and the session routes        *)
(* (src/app.py).                                                           *)
(*                                                                         *)
(* Text is a sequence of one-character strings.  Regular expressions are   *)
(* built as character strings exactly as the code builds them (re.escape,  *)
(* the SEP fragment, the \s+ join) and then parsed by re_parse into the    *)
(* elements the backtracking matcher re_match_from interprets.             *)
(***************************************************************************)
EXTENDS Integers, Sequences, FiniteSets, TLC

VARIABLES matcher, hl, scorer, gemini, session, response, history, manager

vars == <<matcher, hl, scorer, gemini, session, response, history, manager>>

----------------------------------------------------------------------------
(* Bounds of the model.                                                    *)

MaxTextLen == 3

MaxTerms == 1

MaxHlLen == 2

MaxCount == 2

----------------------------------------------------------------------------
(* Characters and Python string methods.                                   *)

UpperSeq ==
  <<"A","B","C","D","E","F","G","H","I","J","K","L","M",
    "N","O","P","Q","R","S","T","U","V","W","X","Y","Z">>

LowerSeq ==
  <<"a","b","c","d","e","f","g","h","i","j","k","l","m",
    "n","o","p","q","r","s","t","u","v","w","x","y","z">>

DigitChars == {"0","1","2","3","4","5","6","7","8","9"}

LowerOf == [c \in {UpperSeq[i] : i \in 1..26} |->
              LowerSeq[CHOOSE i \in 1..26 : UpperSeq[i] = c]]

CharLower(c) == IF c \in DOMAIN LowerOf THEN LowerOf[c] ELSE c

WordChars == {UpperSeq[i] : i \in 1..26} \cup {LowerSeq[i] : i \in 1..26}
             \cup DigitChars \cup {"_"}

IsWord(c) == c \in WordChars

IsSpace(c) == c \in {" ", "\t", "\n", "\r", "\f"}

IsSepChar(c) == IsSpace(c) \/ c \in {"-", "/", "_", "."}

SetMin(S) == CHOOSE x \in S : \A y \in S : x <= y

SetMax(S) == CHOOSE x \in S : \A y \in S : x >= y

str_lower(s) == [i \in 1..Len(s) |-> CharLower(s[i])]

str_strip(s) ==
  LET keep == {i \in 1..Len(s) : ~IsSpace(s[i])}
  IN  IF keep = {} THEN <<>> ELSE SubSeq(s, SetMin(keep), SetMax(keep))

str_contains(s, sub) ==
  \E i \in 1..(Len(s) - Len(sub) + 1) : SubSeq(s, i, i + Len(sub) - 1) = sub

IsSubstringOf(sub, s, i) ==
  /\ i + Len(sub) - 1 <= Len(s)
  /\ SubSeq(s, i, i + Len(sub) - 1) = sub

RECURSIVE str_join(_, _)
str_join(parts, sep) ==
  IF parts = <<>> THEN <<>>
  ELSE IF Len(parts) = 1 THEN parts[1]
  ELSE parts[1] \o sep \o str_join(Tail(parts), sep)

RECURSIVE SeqConcat(_)
SeqConcat(ss) == IF ss = <<>> THEN <<>> ELSE Head(ss) \o SeqConcat(Tail(ss))

----------------------------------------------------------------------------
(* keyword_matcher.py: SEP, SYNONYMS, canonical, _token_sep_variant,       *)
(* term_variants.                                                          *)

SEP == <<"[","\\","s","\\","-","/","_",".","]","*">>

SYNONYMS ==
  << << <<"g","c","p">>,
       << <<"g","o","o","g","l","e"," ","c","l","o","u","d">>,
          <<"g","o","o","g","l","e"," ","c","l","o","u","d"," ","p","l","a","t","f","o","r","m">> >> >>,
     << <<"a","w","s">>,
       << <<"a","m","a","z","o","n"," ","w","e","b"," ","s","e","r","v","i","c","e","s">> >> >>,
     << <<"a","z","u","r","e"," ","d","e","v","o","p","s">>,
       << <<"a","z","u","r","e"," ","b","o","a","r","d","s">>,
          <<"a","d","o">> >> >>,
     << <<"n","o","d","e",".","j","s">>,
       << <<"n","o","d","e","j","s">>,
          <<"n","o","d","e"," ","j","s">> >> >>,
     << <<".","n","e","t">>,
       << <<"d","o","t","n","e","t">>,
          <<"d","o","t"," ","n","e","t">> >> >>,
     << <<"p","o","w","e","r"," ","b","i">>,
       << <<"p","o","w","e","r","b","i">>,
          <<"p","b","i">> >> >>,
     << <<"m","s"," ","o","f","f","i","c","e">>,
       << <<"m","i","c","r","o","s","o","f","t"," ","o","f","f","i","c","e">>,
          <<"o","f","f","i","c","e"," ","3","6","5">>,
          <<"o","f","f","i","c","e","3","6","5">> >> >>,
     << <<"p","o","s","t","g","r","e","s","q","l">>,
       << <<"p","o","s","t","g","r","e","s">> >> >>,
     << <<"c","i","/","c","d">>,
       << <<"c","i","c","d">>,
          <<"c","i"," ","c","d">> >> >>,
     << <<"g","o","o","g","l","e"," ","b","i","g","q","u","e","r","y">>,
       << <<"b","i","g","q","u","e","r","y">>,
          <<"g","c","p"," ","b","i","g","q","u","e","r","y">> >> >>,
     << <<"e","t","l">>,
       << <<"e","x","t","r","a","c","t"," ","t","r","a","n","s","f","o","r","m"," ","l","o","a","d">> >> >>,
     << <<"p","i","x","4","d">>,
       << <<"p","i","x"," ","4","d">>,
          <<"p","i","x","-","4","d">> >> >>,
     << <<"a","r","c","g","i","s">>,
       << <<"a","r","c"," ","g","i","s">>,
          <<"a","r","c","-","g","i","s">> >> >>,
     << <<"q","g","i","s">>,
       << <<"q"," ","g","i","s">>,
          <<"q","-","g","i","s">> >> >>,
     << <<"i","a","m">>,
       << <<"i","d","e","n","t","i","t","y"," ","a","n","d"," ","a","c","c","e","s","s"," ","m","a","n","a","g","e","m","e","n","t">> >> >> >>

SYNONYMS_get(t) ==
  LET hit == {i \in 1..Len(SYNONYMS) : SYNONYMS[i][1] = t}
  IN  IF hit = {} THEN <<>> ELSE SYNONYMS[CHOOSE i \in hit : TRUE][2]

canonical(term) == str_lower(str_strip(term))

(* re.split(r'[\s\-/_.]+', t): the pieces between maximal separator runs;  *)
(* a leading or trailing run leaves an empty piece.                        *)
RECURSIVE re_split_from(_, _, _)
re_split_from(t, i, cur) ==
  IF i > Len(t) THEN <<cur>>
  ELSE IF IsSepChar(t[i])
       THEN LET rest == {j \in (i + 1)..Len(t) : ~IsSepChar(t[j])}
                nxt  == IF rest = {} THEN Len(t) + 1 ELSE SetMin(rest)
            IN  <<cur>> \o re_split_from(t, nxt, <<>>)
       ELSE re_split_from(t, i + 1, Append(cur, t[i]))

re_split_seps(t) == re_split_from(t, 1, <<>>)

(* re.escape of Python 3.7+: a backslash before each special character.    *)
ReSpecialChars ==
  {"(", ")", "[", "]", "{", "}", "?", "*", "+", "-", "|", "^", "$", "\\",
   ".", "&", "~", "#", " ", "\t", "\n", "\r", "\f"}

(* Variant of re_escape that leaves the dot unescaped. *)
re_escape_keeps_dot(s) ==
  SeqConcat([i \in 1..Len(s) |->
               IF s[i] \in ReSpecialChars \ {"."} THEN <<"\\", s[i]>> ELSE <<s[i]>>])

re_escape(s) ==
  SeqConcat([i \in 1..Len(s) |->
               IF s[i] \in ReSpecialChars THEN <<"\\", s[i]>> ELSE <<s[i]>>])

has_sep(base) == \E i \in 1..Len(base) : IsSepChar(base[i])

escaped_tokens(t) ==
  LET tokens == re_split_seps(t)
  IN  [i \in 1..Len(tokens) |-> re_escape(tokens[i])]

_token_sep_variant(t) == str_join(escaped_tokens(t), SEP)

ws_join_variant(t) == str_join(escaped_tokens(t), <<"\\", "s", "+">>)

RECURSIVE dedup_lower(_, _, _)
dedup_lower(variants, seen, out) ==
  IF variants = <<>> THEN out
  ELSE LET v  == Head(variants)
           v2 == str_lower(v)
       IN  IF v2 \in seen
           THEN dedup_lower(Tail(variants), seen, out)
           ELSE dedup_lower(Tail(variants), seen \cup {v2}, Append(out, v))

term_variants(term) ==
  LET t     == canonical(term)
      first == <<t>> \o SYNONYMS_get(t)
      flex  == SeqConcat([i \in 1..Len(first) |->
                 IF has_sep(first[i])
                 THEN <<_token_sep_variant(first[i]), ws_join_variant(first[i])>>
                 ELSE <<>>])
  IN  dedup_lower(first \o flex, {}, <<>>)

----------------------------------------------------------------------------
(* Regular expressions.  re_parse reads the pattern text the code hands to *)
(* re.compile; a compiled pattern is its alternatives, each a sequence of  *)
(* elements [kind, ch, q], under the flags (?i), (?<!\w) and (?!\w) that   *)
(* every pattern of this program carries.                                  *)

SepClass == <<"[","\\","s","\\","-","/","_",".","]">>

RECURSIVE re_parse(_, _)
re_parse(p, i) ==
  IF i > Len(p) THEN <<>>
  ELSE LET atom ==
             IF p[i] = "\\" /\ i < Len(p)
             THEN IF p[i + 1] = "s"
                  THEN [kind |-> "space", ch |-> "", len |-> 2]
                  ELSE [kind |-> "lit", ch |-> p[i + 1], len |-> 2]
             ELSE IF p[i] = "[" /\ i + 8 <= Len(p) /\ SubSeq(p, i, i + 8) = SepClass
                  THEN [kind |-> "sep", ch |-> "", len |-> 9]
                  ELSE IF p[i] = "."
                       THEN [kind |-> "any", ch |-> "", len |-> 1]
                       ELSE [kind |-> "lit", ch |-> p[i], len |-> 1]
           j == i + atom.len
           quant == IF j <= Len(p) /\ p[j] \in {"*", "+"} THEN p[j] ELSE "1"
           nxt == IF quant = "1" THEN j ELSE j + 1
       IN  <<[kind |-> atom.kind, ch |-> atom.ch, q |-> quant]>> \o re_parse(p, nxt)

elem_matches(e, c) ==
  CASE e.kind = "lit"   -> CharLower(c) = CharLower(e.ch)
    [] e.kind = "space" -> IsSpace(c)
    [] e.kind = "sep"   -> IsSepChar(c)
    [] e.kind = "any"   -> c # "\n"

run_len(e, text, pos) ==
  LET stop == {j \in pos..Len(text) : ~elem_matches(e, text[j])}
  IN  IF stop = {} THEN Len(text) + 1 - pos ELSE SetMin(stop) - pos

(* Backtracking match of elems[k..] at pos, closed by the lookahead (?!\w). *)
(* The result is the position after the match, 0 when there is none; a     *)
(* greedy quantifier keeps the longest run that lets the rest match.       *)
RECURSIVE re_match_from(_, _, _, _)
re_match_from(elems, k, text, pos) ==
  IF k > Len(elems)
  THEN IF pos <= Len(text) /\ IsWord(text[pos]) THEN 0 ELSE pos
  ELSE LET e == elems[k]
       IN  IF e.q = "1"
           THEN IF pos <= Len(text) /\ elem_matches(e, text[pos])
                THEN re_match_from(elems, k + 1, text, pos + 1)
                ELSE 0
           ELSE LET lo == IF e.q = "+" THEN 1 ELSE 0
                    ok == {n \in lo..run_len(e, text, pos) :
                             re_match_from(elems, k + 1, text, pos + n) # 0}
                IN  IF ok = {} THEN 0
                    ELSE re_match_from(elems, k + 1, text, pos + SetMax(ok))

(* One attempt at pos: the lookbehind (?<!\w), then the first alternative  *)
(* in order that matches.                                                  *)
re_match_at(rx, text, pos) ==
  IF pos > 1 /\ IsWord(text[pos - 1]) THEN 0
  ELSE LET ok == {a \in 1..Len(rx) : re_match_from(rx[a], 1, text, pos) # 0}
       IN  IF ok = {} THEN 0 ELSE re_match_from(rx[SetMin(ok)], 1, text, pos)

NoMatch == [start |-> 0, stop |-> 0]

(* Pattern.search(text) from position from: the leftmost match.            *)
re_search_from(rx, text, from) ==
  LET hits == {i \in from..(Len(text) + 1) : re_match_at(rx, text, i) # 0}
  IN  IF hits = {} THEN NoMatch
      ELSE [start |-> SetMin(hits), stop |-> re_match_at(rx, text, SetMin(hits))]

re_search(rx, text) == re_search_from(rx, text, 1)

group0(text, m) == SubSeq(text, m.start, m.stop - 1)

----------------------------------------------------------------------------
(* keyword_matcher.py: compile_patterns_for_term, any_match_with_surface,  *)
(* present_missing_with_surface.                                           *)

looks_like_pattern(v) ==
  /\ str_contains(v, <<"\\">>)
  /\ \/ str_contains(v, <<"\\", "s">>)
     \/ str_contains(v, <<"\\", "-">>)
     \/ str_contains(v, <<"\\", ".">>)

PatPrefix == <<"(","?","i",")","(","?","<","!","\\","w",")">>

PatSuffix == <<"(","?","!","\\","w",")">>

(* The pattern text line 71 or 73 builds for one variant *)
pattern_text(v) ==
  PatPrefix \o (IF looks_like_pattern(v) THEN v ELSE re_escape(v)) \o PatSuffix

pattern_body(pat) == SubSeq(pat, Len(PatPrefix) + 1, Len(pat) - Len(PatSuffix))

(* The number of backslashes the text ends with *)
RECURSIVE trailing_backslashes(_)
trailing_backslashes(body) ==
  IF body = <<>> \/ body[Len(body)] # "\\" THEN 0
  ELSE 1 + trailing_backslashes(SubSeq(body, 1, Len(body) - 1))

(* re.compile(pat) raises re.error when the variant ends with an unpaired  *)
(* backslash, which then escapes the parenthesis of the lookahead.         *)
re_compile_error(pat) ==
  IF trailing_backslashes(pattern_body(pat)) % 2 = 1 THEN "re.error" ELSE ""

re_compile(pat) == <<re_parse(pattern_body(pat), 1)>>

compile_patterns_for_term(term) ==
  LET vs == term_variants(term)
  IN  [i \in 1..Len(vs) |-> re_compile(pattern_text(vs[i]))]

(* Variant of any_match_with_surface that loses the original casing.      *)
RECURSIVE any_match_lowered(_, _)
any_match_lowered(text, patterns) ==
  IF patterns = <<>> THEN <<>>
  ELSE LET m == re_search(Head(patterns), text)
       IN  IF m # NoMatch THEN str_lower(group0(text, m))
           ELSE any_match_lowered(text, Tail(patterns))

RECURSIVE any_match_with_surface(_, _)
any_match_with_surface(text, patterns) ==
  IF patterns = <<>> THEN <<>>
  ELSE LET m == re_search(Head(patterns), text)
       IN  IF m # NoMatch THEN group0(text, m)
           ELSE any_match_with_surface(text, Tail(patterns))

EmptyResult == [present |-> {}, missing |-> {}, surfaces |-> <<>>]

RECURSIVE present_missing_loop(_, _, _)
present_missing_loop(text, terms, acc) ==
  IF terms = <<>> THEN acc
  ELSE LET t == canonical(Head(terms))
       IN  IF t = <<>>
           THEN present_missing_loop(text, Tail(terms), acc)
           ELSE LET surface == any_match_with_surface(text, compile_patterns_for_term(t))
                IN  IF surface # <<>>
                    THEN present_missing_loop(text, Tail(terms),
                           [acc EXCEPT !.present = @ \cup {t},
                                       !.surfaces = (t :> surface) @@ @])
                    ELSE present_missing_loop(text, Tail(terms),
                           [acc EXCEPT !.missing = @ \cup {t}])

present_missing_keeps_present(text, terms, synonyms) ==
  LET r == present_missing_loop(text, terms, EmptyResult)
  IN  [r EXCEPT !.missing = r.missing \cup r.present]

present_missing_with_surface(text, terms, synonyms) ==
  present_missing_loop(text, terms, EmptyResult)

----------------------------------------------------------------------------
(* app.py: _escape, _compile_terms, _highlight.                            *)

RECURSIVE str_replace_from(_, _, _, _)
str_replace_from(s, old, new, i) ==
  IF i > Len(s) THEN <<>>
  ELSE IF i + Len(old) - 1 <= Len(s) /\ SubSeq(s, i, i + Len(old) - 1) = old
       THEN new \o str_replace_from(s, old, new, i + Len(old))
       ELSE <<s[i]>> \o str_replace_from(s, old, new, i + 1)

(* str.replace(old, new) for a non-empty old *)
(* Python evaluates an argument once, before the call: the subject is     *)
(* bound to its value v (CHOOSE over a one-element set, here and below).   *)
str_replace(s, old, new) ==
  CHOOSE out \in {str_replace_from(v, old, new, 1) : v \in {s}} : TRUE

_escape(text) ==
  str_replace(
    str_replace(
      str_replace(text, <<"&">>, <<"&","a","m","p",";">>),
      <<"<">>, <<"&","l","t",";">>),
    <<">">>, <<"&","g","t",";">>)

(* sorted(set(terms), key=len, reverse=True) *)
RECURSIVE sorted_by_len_desc(_)
sorted_by_len_desc(S) ==
  IF S = {} THEN <<>>
  ELSE LET t == CHOOSE t \in S : \A u \in S : Len(t) >= Len(u)
       IN  <<t>> \o sorted_by_len_desc(S \ {t})

(* The compiled alternation, in order; <<>> stands for None. *)
_compile_terms(terms) ==
  LET kept   == {terms[i] : i \in {j \in 1..Len(terms) : terms[j] # <<>>}}
      sorted == sorted_by_len_desc(kept)
  IN  [i \in 1..Len(sorted) |-> re_parse(re_escape(sorted[i]), 1)]

DigitSeq == <<"0","1","2","3","4","5","6","7","8","9">>

RECURSIVE int_to_str(_)
int_to_str(n) ==
  IF n < 10 THEN <<DigitSeq[n + 1]>>
  ELSE int_to_str(n \div 10) \o <<DigitSeq[(n % 10) + 1]>>

(* f"@@H{len(repl)}@@" *)
placeholder(n) == <<"@","@","H">> \o int_to_str(n) \o <<"@","@">>

(* The opening and closing tags of the inserted markup are single elements *)
(* of the output sequence: no pattern runs once they are inserted and no   *)
(* placeholder contains a character of a tag.                              *)
SpanOpen ==
  [cls \in {"hl-critical", "hl-medium", "hl-low", "hl-good"} |->
     CASE cls = "hl-critical" -> "<span class=\"hl hl-critical\">"
       [] cls = "hl-medium"   -> "<span class=\"hl hl-medium\">"
       [] cls = "hl-low"      -> "<span class=\"hl hl-low\">"
       [] cls = "hl-good"     -> "<span class=\"hl hl-good\">"]

SpanClose == "</span>"

span_markup(cls, token) == <<SpanOpen[cls]>> \o _escape(token) \o <<SpanClose>>

(* regex.sub(_sub, html) from position pos on: every leftmost             *)
(* non-overlapping match becomes the next placeholder and its markup is    *)
(* appended to repl.                                                       *)
RECURSIVE regex_sub_from(_, _, _, _, _)
regex_sub_from(rx, cls, html, pos, repl) ==
  CHOOSE out \in
    {IF m = NoMatch
     THEN [html |-> SubSeq(html, pos, Len(html)), repl |-> repl]
     ELSE CHOOSE sub \in
            {[html |-> SubSeq(html, pos, m.start - 1)
                       \o placeholder(Len(repl)) \o rest.html,
              repl |-> rest.repl] :
             rest \in
               {regex_sub_from(rx, cls, html, m.stop, r) :
                r \in {Append(repl, <<placeholder(Len(repl)),
                                      span_markup(cls, group0(html, m))>>)}}} : TRUE :
     m \in {re_search_from(rx, html, pos)}} : TRUE

wrap(regex, cls, st) ==
  CHOOSE out \in
    {IF rx = <<>> THEN v ELSE regex_sub_from(rx, cls, v.html, 1, v.repl) :
     rx \in {regex}, v \in {st}} : TRUE

RECURSIVE replace_placeholders(_, _, _)
replace_placeholders(html, repl, k) ==
  IF k > Len(repl) THEN html
  ELSE CHOOSE out \in
         {replace_placeholders(h, repl, k + 1) :
          h \in {str_replace(html, repl[k][1], repl[k][2])}} : TRUE

(* The state of _highlight before the placeholders are substituted. *)
highlight_wrapped(text, good, critical, medium, low) ==
  LET s0 == [html |-> _escape(text), repl |-> <<>>]
      s1 == wrap(_compile_terms(critical), "hl-critical", s0)
      s2 == wrap(_compile_terms(medium), "hl-medium", s1)
      s3 == wrap(_compile_terms(low), "hl-low", s2)
  IN  wrap(_compile_terms(good), "hl-good", s3)

_highlight(text, good, critical, medium, low) ==
  CHOOSE out \in
    {replace_placeholders(w.html, w.repl, 1) :
     w \in {highlight_wrapped(text, good, critical, medium, low)}} : TRUE

----------------------------------------------------------------------------
(* Arithmetic of the scoring code.  A Python float is modelled by the      *)
(* exact rational it denotes, [n, d] in lowest terms with d > 0; the       *)
(* rounding error of binary doubles (about 1e-14 here) is not represented. *)

RECURSIVE GCD(_, _)
GCD(a, b) == IF b = 0 THEN a ELSE GCD(b, a % b)

Abs(x) == IF x < 0 THEN -x ELSE x

Rat(n, d) ==
  LET g == GCD(Abs(n), d)
  IN  IF n = 0 THEN [n |-> 0, d |-> 1] ELSE [n |-> n \div g, d |-> d \div g]

RatInt(k) == [n |-> k, d |-> 1]

RatAdd(x, y) == Rat(x.n * y.d + y.n * x.d, x.d * y.d)

RatSub(x, y) == Rat(x.n * y.d - y.n * x.d, x.d * y.d)

RatMul(x, y) == Rat(x.n * y.n, x.d * y.d)

RatLeq(x, y) == x.n * y.d <= y.n * x.d

RatMin(x, y) == IF RatLeq(y, x) THEN y ELSE x

RatMax(x, y) == IF RatLeq(x, y) THEN y ELSE x

IntMin(a, b) == IF b < a THEN b ELSE a

IntMax(a, b) == IF b > a THEN b ELSE a

RatFloor(x) == IF x.n >= 0 THEN x.n \div x.d ELSE -((-x.n + x.d - 1) \div x.d)

(* int(x): truncation towards zero *)
py_int(x) == IF x.n >= 0 THEN x.n \div x.d ELSE -((-x.n) \div x.d)

(* round(x): to the nearest integer, a tie to the even neighbour *)
py_round(x) ==
  LET f    == RatFloor(x)
      twoR == 2 * (x.n - f * x.d)
  IN  IF twoR > x.d THEN f + 1
      ELSE IF twoR < x.d THEN f
      ELSE IF f % 2 = 0 THEN f ELSE f + 1

(* len(present) / max(1, len(present) + len(missing)) *)
coverage_over_present(present, missing) == Rat(present, IntMax(1, present))

coverage(present, missing) == Rat(present, IntMax(1, present + missing))

----------------------------------------------------------------------------
(* app.py: the two ATS scores and _ats_level.                              *)

(* process_jd_route, lines 381-392 *)
simple_base(pr, mr, po, mo) ==
  RatMul(RatInt(100),
         RatAdd(RatMul(Rat(65, 100), coverage(pr, mr)),
                RatMul(Rat(25, 100), coverage(po, mo))))

simple_penalty(critical_count, improvements_count, low_count) ==
  5 * critical_count + 2 * IntMax(0, improvements_count - 3) + 1 * low_count

(* Variant of simple_score without the clamp to 0..100. *)
simple_score_unclamped(pr, mr, po, mo, critical_count, improvements_count, low_count) ==
  py_round(RatSub(simple_base(pr, mr, po, mo),
                  RatInt(simple_penalty(critical_count, improvements_count, low_count))))

simple_score(pr, mr, po, mo, critical_count, improvements_count, low_count) ==
  LET base    == simple_base(pr, mr, po, mo)
      penalty == simple_penalty(critical_count, improvements_count, low_count)
  IN  IntMax(0, IntMin(100, py_round(RatSub(base, RatInt(penalty)))))

(* Variant of metrics_base that weighs the share of missing required terms. *)
metrics_base_missing_share(pr, mr, po, mo, pt, mt, ps, ms) ==
  RatMul(RatInt(100),
         RatAdd(RatAdd(RatAdd(RatMul(Rat(50, 100), coverage(mr, pr)),
                              RatMul(Rat(25, 100), coverage(po, mo))),
                       RatMul(Rat(20, 100), coverage(pt, mt))),
                RatMul(Rat(5, 100), RatMin(RatInt(1), coverage(ps, ms)))))

(* compute_metrics, lines 142-167 *)
metrics_base(pr, mr, po, mo, pt, mt, ps, ms) ==
  RatMul(RatInt(100),
         RatAdd(RatAdd(RatAdd(RatMul(Rat(50, 100), coverage(pr, mr)),
                              RatMul(Rat(25, 100), coverage(po, mo))),
                       RatMul(Rat(20, 100), coverage(pt, mt))),
                RatMul(Rat(5, 100), RatMin(RatInt(1), coverage(ps, ms)))))

(* Variant of metrics_penalty without the cap at 70% of the base. *)
metrics_penalty_uncapped(base, mr, weak, low) ==
  RatInt(mr * 8 + weak * 3 + low * 2)

metrics_penalty(base, mr, weak, low) ==
  LET critical_penalty      == mr * 8
      weak_language_penalty == weak * 3
      low_context_penalty   == low * 2
      total_penalty == critical_penalty + weak_language_penalty + low_context_penalty
  IN  RatMin(RatInt(total_penalty), RatMul(base, Rat(7, 10)))

metrics_score(pr, mr, po, mo, pt, mt, ps, ms, weak, low) ==
  LET base_score    == metrics_base(pr, mr, po, mo, pt, mt, ps, ms)
      total_penalty == metrics_penalty(base_score, mr, weak, low)
  IN  IntMax(0, IntMin(100, py_int(RatSub(base_score, total_penalty))))

(* Variant of _ats_level with the 'good' threshold at 70. *)
ats_level_good_at_70(score) ==
  IF score >= 80 THEN "ats-great"
  ELSE IF score >= 70 THEN "ats-good"
  ELSE IF score >= 40 THEN "ats-fair"
  ELSE "ats-poor"

_ats_level(score) ==
  IF score >= 80 THEN "ats-great"
  ELSE IF score >= 60 THEN "ats-good"
  ELSE IF score >= 40 THEN "ats-fair"
  ELSE "ats-poor"

----------------------------------------------------------------------------
(* Ordering of strings (sorted()), priority_skills.py and                  *)
(* resume_processor.py: clean_for_model.                                   *)

AsciiSeq ==
  << " ","!","\"","#","$","%","&","'","(",")","*","+",
     ",","-",".","/","0","1","2","3","4","5","6","7",
     "8","9",":",";","<","=",">","?","@","A","B","C",
     "D","E","F","G","H","I","J","K","L","M","N","O",
     "P","Q","R","S","T","U","V","W","X","Y","Z","[",
     "\\","]","^","_","grave","a","b","c","d","e","f","g",
     "h","i","j","k","l","m","n","o","p","q","r","s",
     "t","u","v","w","x","y","z","{","|","}","~" >>

(* ord(c); "grave" holds the place of the backquote, which a TLA+ string  *)
(* cannot contain; control characters sort before the printable ones.     *)
CharCode(c) ==
  IF \E i \in 1..Len(AsciiSeq) : AsciiSeq[i] = c
  THEN 31 + (CHOOSE i \in 1..Len(AsciiSeq) : AsciiSeq[i] = c)
  ELSE 10

RECURSIVE str_less(_, _)
str_less(a, b) ==
  IF b = <<>> THEN FALSE
  ELSE IF a = <<>> THEN TRUE
  ELSE IF Head(a) = Head(b) THEN str_less(Tail(a), Tail(b))
  ELSE CharCode(Head(a)) < CharCode(Head(b))

(* sorted(list(S)) for a set of strings *)
RECURSIVE sorted(_)
sorted(S) ==
  IF S = {} THEN <<>>
  ELSE LET m == CHOOSE m \in S : \A x \in S \ {m} : str_less(m, x)
       IN  <<m>> \o sorted(S \ {m})

HIGH_PRIORITY_SKILLS ==
  { <<"p","y","t","h","o","n">>,
    <<"j","a","v","a">>,
    <<"c","+","+">>,
    <<"c","#">>,
    <<".","n","e","t">>,
    <<"n","o","d","e",".","j","s">>,
    <<"j","a","v","a","s","c","r","i","p","t">>,
    <<"t","y","p","e","s","c","r","i","p","t">>,
    <<"g","o">>,
    <<"r","u","s","t">>,
    <<"s","q","l">>,
    <<"m","y","s","q","l">>,
    <<"p","o","s","t","g","r","e","s","q","l">>,
    <<"o","r","a","c","l","e">>,
    <<"m","o","n","g","o","d","b">>,
    <<"s","p","a","r","k">>,
    <<"h","a","d","o","o","p">>,
    <<"a","w","s">>,
    <<"a","z","u","r","e">>,
    <<"g","c","p">>,
    <<"g","o","o","g","l","e"," ","c","l","o","u","d">>,
    <<"k","u","b","e","r","n","e","t","e","s">>,
    <<"d","o","c","k","e","r">>,
    <<"t","e","r","r","a","f","o","r","m">>,
    <<"a","n","s","i","b","l","e">>,
    <<"p","a","n","d","a","s">>,
    <<"n","u","m","p","y">>,
    <<"s","c","i","k","i","t","-","l","e","a","r","n">>,
    <<"t","e","n","s","o","r","f","l","o","w">>,
    <<"p","y","t","o","r","c","h">>,
    <<"m","l","o","p","s">>,
    <<"l","i","n","u","x">>,
    <<"g","i","t">>,
    <<"c","i","/","c","d">>,
    <<"j","e","n","k","i","n","s">>,
    <<"k","a","f","k","a">>,
    <<"e","l","a","s","t","i","c">>,
    <<"e","l","a","s","t","i","c","s","e","a","r","c","h">>,
    <<"s","n","o","w","f","l","a","k","e">>,
    <<"p","o","w","e","r"," ","b","i">>,
    <<"t","a","b","l","e","a","u">>,
    <<"l","o","o","k","e","r">>,
    <<"e","x","c","e","l">>,
    <<"s","i","e","m">>,
    <<"s","o","c">>,
    <<"i","a","m">>,
    <<"o","k","t","a">>,
    <<"s","p","l","u","n","k">> }

get_priority_skills == HIGH_PRIORITY_SKILLS

(* re.sub of http\S+|www\S+|https\S+ by one space *)
RECURSIVE strip_urls_from(_, _)
strip_urls_from(text, i) ==
  IF i > Len(text) THEN <<>>
  ELSE LET n == IF IsSubstringOf(<<"h","t","t","p">>, text, i) THEN 4
                ELSE IF IsSubstringOf(<<"w","w","w">>, text, i) THEN 3
                ELSE 0
           more == {j \in (i + n)..Len(text) : IsSpace(text[j])}
           stop == IF more = {} THEN Len(text) + 1 ELSE SetMin(more)
       IN  IF n > 0 /\ stop > i + n
           THEN <<" ">> \o strip_urls_from(text, stop)
           ELSE <<text[i]>> \o strip_urls_from(text, i + 1)

(* re.sub of \s+ by one space *)
RECURSIVE collapse_spaces_from(_, _)
collapse_spaces_from(text, i) ==
  IF i > Len(text) THEN <<>>
  ELSE IF IsSpace(text[i])
       THEN LET more == {j \in i..Len(text) : ~IsSpace(text[j])}
                stop == IF more = {} THEN Len(text) + 1 ELSE SetMin(more)
            IN  <<" ">> \o collapse_spaces_from(text, stop)
       ELSE <<text[i]>> \o collapse_spaces_from(text, i + 1)

clean_for_model(text) ==
  LET t1 == strip_urls_from(text, 1)
      t2 == [i \in 1..Len(t1) |->
               IF IsWord(t1[i]) \/ IsSpace(t1[i]) THEN t1[i] ELSE " "]
      t3 == str_lower(t2)
      t4 == [i \in 1..Len(t3) |-> IF t3[i] \in DigitChars THEN " " ELSE t3[i]]
  IN  str_strip(collapse_spaces_from(t4, 1))

----------------------------------------------------------------------------
(* resume_processor.py: normalize_display; app.py: process_jd_route.       *)

(* re.sub of [ \t]+ by one space *)
RECURSIVE collapse_blanks_from(_, _)
collapse_blanks_from(text, i) ==
  IF i > Len(text) THEN <<>>
  ELSE IF text[i] \in {" ", "\t"}
       THEN LET more == {j \in i..Len(text) : text[j] \notin {" ", "\t"}}
                stop == IF more = {} THEN Len(text) + 1 ELSE SetMin(more)
            IN  <<" ">> \o collapse_blanks_from(text, stop)
       ELSE <<text[i]>> \o collapse_blanks_from(text, i + 1)

(* re.sub of \n{3,} by two newlines *)
RECURSIVE collapse_newlines_from(_, _)
collapse_newlines_from(text, i) ==
  IF i > Len(text) THEN <<>>
  ELSE IF text[i] = "\n"
       THEN LET more == {j \in i..Len(text) : text[j] # "\n"}
                stop == IF more = {} THEN Len(text) + 1 ELSE SetMin(more)
            IN  (IF stop - i >= 3 THEN <<"\n", "\n">> ELSE SubSeq(text, i, stop - 1))
                \o collapse_newlines_from(text, stop)
       ELSE <<text[i]>> \o collapse_newlines_from(text, i + 1)

normalize_display(text) ==
  LET t1 == str_replace(str_replace(text, <<"\r", "\n">>, <<"\n">>), <<"\r">>, <<"\n">>)
      t2 == str_replace(t1, <<"nbsp">>, <<" ">>)
  IN  str_strip(collapse_newlines_from(collapse_blanks_from(t2, 1), 1))

(* process_resume(file_path) and process_jd(file_path): the display text   *)
(* of the uploaded file, whose extracted content is raw.                   *)
process_resume(raw) == normalize_display(raw)

process_jd(raw) == process_resume(raw)

(* The embedding model is external: its answers are named by their inputs. *)
calculate_similarity(resume_clean, jd_clean) ==
  [kind |-> "similarity", resume |-> resume_clean, jd |-> jd_clean]

get_top_job_matches(resume_clean) == [kind |-> "top_matches", resume |-> resume_clean]

(* re.search(re.escape(p2), resume_text, flags=re.IGNORECASE) *)
search_ignorecase(p2, text) ==
  \E i \in 1..(Len(text) - Len(p2) + 1) :
    str_lower(SubSeq(text, i, i + Len(p2) - 1)) = str_lower(p2)

occurs_any(text, phrases) ==
  {str_lower(str_strip(phrases[i])) :
     i \in {j \in 1..Len(phrases) :
              /\ str_strip(phrases[j]) # <<>>
              /\ search_ignorecase(str_strip(phrases[j]), text)}}

(* list(d.values()); _compile_terms makes a set of it, so the order of the *)
(* values is immaterial and the keys are taken in sorted order.            *)
dict_values(d) ==
  LET ks == sorted(DOMAIN d)
  IN  [i \in 1..Len(ks) |-> d[ks[i]]]

lower_all(phrases) == [i \in 1..Len(phrases) |-> str_lower(phrases[i])]

(* Variant of critical_missing that counts every missing required term. *)
critical_missing_all(mr) == mr

(* [k for k in mr if k in PRIORITY] *)
critical_missing(mr) == {k \in mr : k \in get_priority_skills}

(* Lines 327-426 of process_jd_route: what is stored besides jd_text, from *)
(* the four results of present_missing_with_surface.                       *)
process_jd_store(resume_text, jd_text, llm, req, opt, tech, soft, score) ==
  [similarity_score |->
     calculate_similarity(clean_for_model(resume_text), clean_for_model(jd_text)),
   top_matches |-> get_top_job_matches(clean_for_model(resume_text)),
   analysis |->
     [present_required |-> sorted(req.present),
      missing_required |-> sorted(req.missing),
      present_optional |-> sorted(opt.present),
      missing_optional |-> sorted(opt.missing),
      present_technical |-> sorted(tech.present),
      missing_technical |-> sorted(tech.missing),
      present_soft |-> sorted(soft.present),
      missing_soft |-> sorted(soft.missing),
      resume_keywords_found |-> sorted(req.present \cup opt.present),
      resume_keywords_missing |-> sorted(req.missing \cup opt.missing),
      critical_missing_required |-> sorted(req.missing \cap get_priority_skills),
      non_critical_missing_required |-> sorted(req.missing \ get_priority_skills),
      smart_cv_analysis |->
        [critical_issues |-> Cardinality(critical_missing(req.missing)),
         improvements |->
           Cardinality(occurs_any(resume_text, llm.weak_language_phrases)),
         missing_skills |-> Cardinality(req.missing \cup opt.missing),
         keywords_found |-> Cardinality(req.present \cup opt.present)],
      ats_score |-> score] @@ llm,
   resume_hl |->
     _highlight(resume_text,
                dict_values(req.surfaces) \o dict_values(opt.surfaces)
                \o dict_values(tech.surfaces) \o dict_values(soft.surfaces),
                <<>>,
                lower_all(llm.weak_language_phrases),
                lower_all(llm.low_context_phrases)),
   jd_hl |->
     _highlight(jd_text, sorted(req.present \cup opt.present),
                sorted(req.missing), <<>>, sorted(opt.missing)),
   ats_level |-> _ats_level(score)]

(* Lines 352-392: the simplified score, from the required and optional    *)
(* results.                                                                *)
process_jd_score(resume_text, llm, req, opt) ==
  simple_score(Cardinality(req.present), Cardinality(req.missing),
               Cardinality(opt.present), Cardinality(opt.missing),
               Cardinality(critical_missing(req.missing)),
               Cardinality(occurs_any(resume_text, llm.weak_language_phrases)),
               Cardinality(occurs_any(resume_text, llm.low_context_phrases)))

(* Lines 297-426 of process_jd_route, for the resume text of the session,  *)
(* the submitted job description and the analysis returned by              *)
(* analyze_with_gemini.                                                    *)
process_jd_results(resume_text, jd_text, llm) ==
  CHOOSE stored \in
    {process_jd_store(resume_text, jd_text, llm, req, opt, tech, soft, score) :
     <<req, opt, tech, soft, score>> \in
       {<<rq, op, present_missing_with_surface(resume_text, llm.technical_skills, <<>>),
          present_missing_with_surface(resume_text, llm.soft_skills, <<>>),
          process_jd_score(resume_text, llm, rq, op)>> :
        rq \in {present_missing_with_surface(resume_text, llm.jd_required_keywords, <<>>)},
        op \in {present_missing_with_surface(resume_text, llm.jd_optional_keywords, <<>>)}}} :
    TRUE

----------------------------------------------------------------------------
(* gemini_analysis.py: DEFAULT, _pull_json and analyze_with_gemini.        *)
(* A JSON value, as json.loads returns it, is a record with its Python     *)
(* type t and its value v; an object is a function from its keys.          *)

JNull == [t |-> "null", v |-> 0]

JInt(n) == [t |-> "int", v |-> n]

JStr(str) == [t |-> "str", v |-> str]

JArr(items) == [t |-> "array", v |-> items]

(* The JSON values true and false, the Python bools *)
JBool(b) == [t |-> "bool", v |-> b]

JObj(fields) == [t |-> "object", v |-> fields]

DEFAULT ==
  [ats_score |-> JInt(0),
   smart_cv_analysis |->
     JObj([critical_issues |-> JInt(0), improvements |-> JInt(0),
           missing_skills |-> JInt(0), keywords_found |-> JInt(0)]),
   jd_required_keywords |-> JArr(<<>>),
   jd_optional_keywords |-> JArr(<<>>),
   resume_keywords_found |-> JArr(<<>>),
   resume_keywords_missing |-> JArr(<<>>),
   weak_language_phrases |-> JArr(<<>>),
   low_context_phrases |-> JArr(<<>>),
   technical_skills |-> JArr(<<>>),
   soft_skills |-> JArr(<<>>),
   ats_suggestions |-> JArr(<<>>)]

(* json.loads raising JSONDecodeError *)
JInvalid == [t |-> "invalid", v |-> 0]

(* re.search finding no {...} region *)
JNoBraces == [t |-> "none", v |-> 0]

(* The reply text as json.loads sees it: loads is the value of the whole   *)
(* text and braces the value of its outermost {...} region.                *)
_pull_json(text) ==
  IF text.loads # JInvalid THEN text.loads
  ELSE IF text.braces \notin {JNoBraces, JInvalid} THEN text.braces
  ELSE JObj(DEFAULT)

(* bool(x) *)
py_truthy(j) ==
  CASE j.t = "null"   -> FALSE
    [] j.t = "int"    -> j.v # 0
    [] j.t = "bool"   -> j.v
    [] j.t = "str"    -> j.v # <<>>
    [] j.t = "array"  -> j.v # <<>>
    [] j.t = "object" -> DOMAIN j.v # {}

(* dict.get(key, default) *)
dict_get(fields, key, default) == IF key \in DOMAIN fields THEN fields[key] ELSE default

IsDigits(str) == str # <<>> /\ \A i \in 1..Len(str) : str[i] \in DigitChars

RECURSIVE str_to_int(_)
str_to_int(str) ==
  IF str = <<>> THEN 0
  ELSE 10 * str_to_int(SubSeq(str, 1, Len(str) - 1))
       + (CHOOSE d \in 0..9 : DigitSeq[d + 1] = str[Len(str)])

(* The exception int(x) raises, "" when it returns *)
py_int_error(j) ==
  CASE j.t = "int"  -> ""
    [] j.t = "bool" -> ""
    [] j.t = "str"  -> IF IsDigits(str_strip(j.v)) THEN "" ELSE "ValueError"
    [] OTHER        -> "TypeError"

py_int_value(j) ==
  CASE j.t = "int"  -> j.v
    [] j.t = "bool" -> IF j.v THEN 1 ELSE 0
    [] OTHER        -> str_to_int(str_strip(j.v))

(* The exception len(x) raises, "" when it returns *)
py_len_error(j) == IF j.t \in {"str", "array", "object"} THEN "" ELSE "TypeError"

py_len(j) == IF j.t = "object" THEN Cardinality(DOMAIN j.v) ELSE Len(j.v)

(* repr(x) of a value json.loads produced.  A string is quoted with      *)
(* apostrophes (it holds none, and no backslash or control character); an *)
(* object is one of at most one key, the key a single character.          *)
RECURSIVE py_repr(_)
py_repr(j) ==
  CASE j.t = "str"    -> <<"'">> \o j.v \o <<"'">>
    [] j.t = "int"    -> int_to_str(j.v)
    [] j.t = "bool"   -> IF j.v THEN <<"T","r","u","e">> ELSE <<"F","a","l","s","e">>
    [] j.t = "null"   -> <<"N","o","n","e">>
    [] j.t = "array"  ->
         <<"[">>
         \o SeqConcat([i \in 1..Len(j.v) |->
                         (IF i = 1 THEN <<>> ELSE <<",", " ">>) \o py_repr(j.v[i])])
         \o <<"]">>
    [] j.t = "object" ->
         IF DOMAIN j.v = {} THEN <<"{", "}">>
         ELSE LET k == CHOOSE k \in DOMAIN j.v : TRUE
              IN  <<"{", "'", k, "'", ":", " ">> \o py_repr(j.v[k]) \o <<"}">>

(* str(x) of an element of a list *)
py_str(j) == IF j.t = "str" THEN j.v ELSE py_repr(j)

(* arr = out.get(key) or []; the exception iterating arr raises *)
py_iter_error(j) ==
  IF py_truthy(j) /\ j.t \in {"int", "bool"} THEN "TypeError" ELSE ""

(* [str(x).strip() for x in arr if str(x).strip()] *)
stripped_items(j) ==
  LET items == IF ~py_truthy(j) THEN <<>>
               ELSE IF j.t = "str" THEN [i \in 1..Len(j.v) |-> JStr(<<j.v[i]>>)]
               ELSE j.v
  IN  SelectSeq([i \in 1..Len(items) |-> str_strip(py_str(items[i]))],
                LAMBDA x : x # <<>>)

normalize_keywords_keeps_case(j) ==
  LET items == stripped_items(j)
  IN  sorted({items[i] : i \in 1..Len(items)})

(* sorted(list({str(x).strip().lower() for x in arr if str(x).strip()})) *)
normalize_keywords(j) ==
  LET items == stripped_items(j)
  IN  sorted({str_lower(items[i]) : i \in 1..Len(items)})

(* list(dict.fromkeys(items)) *)
RECURSIVE dict_fromkeys(_)
dict_fromkeys(items) ==
  IF items = <<>> THEN <<>>
  ELSE LET front == dict_fromkeys(SubSeq(items, 1, Len(items) - 1))
           last  == items[Len(items)]
       IN  IF \E i \in 1..Len(front) : front[i] = last THEN front
           ELSE Append(front, last)

normalize_phrases(j) == dict_fromkeys(stripped_items(j))

FirstError(errors) ==
  IF \A i \in 1..Len(errors) : errors[i] = "" THEN ""
  ELSE errors[SetMin({i \in 1..Len(errors) : errors[i] # ""})]

KeywordKeys ==
  <<"jd_required_keywords", "jd_optional_keywords", "resume_keywords_found",
    "resume_keywords_missing", "technical_skills", "soft_skills">>

PhraseKeys == <<"weak_language_phrases", "low_context_phrases", "ats_suggestions">>

(* out.update({k: data.get(k, out[k]) for k in out.keys()}), line 129 *)
gemini_filled(data) == [k \in DOMAIN DEFAULT |-> dict_get(data.v, k, DEFAULT[k])]

(* sca = out.get("smart_cv_analysis") or {} *)
gemini_sca(out) ==
  IF py_truthy(out.smart_cv_analysis) THEN out.smart_cv_analysis ELSE JObj(<<>>)

(* The first exception lines 129-164 raise for the parsed reply, "" when   *)
(* they raise none.                                                        *)
gemini_error(data) ==
  IF data.t # "object" THEN "AttributeError"
  ELSE LET out == gemini_filled(data)
           sca == gemini_sca(out)
       IN  IF sca.t # "object" THEN "AttributeError"
           ELSE FirstError(
                  <<py_int_error(dict_get(sca.v, "critical_issues", JInt(0))),
                    py_int_error(dict_get(sca.v, "improvements", JInt(0))),
                    py_len_error(out.resume_keywords_missing),
                    py_int_error(dict_get(sca.v, "missing_skills", JInt(0))),
                    py_len_error(out.resume_keywords_found),
                    py_int_error(dict_get(sca.v, "keywords_found", JInt(0))),
                    py_int_error(out.ats_score)>>
                  \o [i \in 1..Len(KeywordKeys) |-> py_iter_error(out[KeywordKeys[i]])]
                  \o [i \in 1..Len(PhraseKeys) |-> py_iter_error(out[PhraseKeys[i]])])

(* The analysis lines 128-166 return for a parsed reply that raises none.  *)
gemini_normalized(data, model_name) ==
  LET out == gemini_filled(data)
      sca == gemini_sca(out)
  IN  [ats_score |-> py_int_value(out.ats_score),
       smart_cv_analysis |->
         [critical_issues |-> py_int_value(dict_get(sca.v, "critical_issues", JInt(0))),
          improvements |-> py_int_value(dict_get(sca.v, "improvements", JInt(0))),
          missing_skills |->
            py_int_value(dict_get(sca.v, "missing_skills",
                                  JInt(py_len(out.resume_keywords_missing)))),
          keywords_found |->
            py_int_value(dict_get(sca.v, "keywords_found",
                                  JInt(py_len(out.resume_keywords_found))))],
       jd_required_keywords |-> normalize_keywords(out.jd_required_keywords),
       jd_optional_keywords |-> normalize_keywords(out.jd_optional_keywords),
       resume_keywords_found |-> normalize_keywords(out.resume_keywords_found),
       resume_keywords_missing |-> normalize_keywords(out.resume_keywords_missing),
       technical_skills |-> normalize_keywords(out.technical_skills),
       soft_skills |-> normalize_keywords(out.soft_skills),
       weak_language_phrases |-> normalize_phrases(out.weak_language_phrases),
       low_context_phrases |-> normalize_phrases(out.low_context_phrases),
       ats_suggestions |-> normalize_phrases(out.ats_suggestions),
       model_used |-> model_name,
       model_available |-> TRUE]

(* DEFAULT.copy() as process_jd_route reads it *)
default_analysis ==
  [ats_score |-> 0,
   smart_cv_analysis |-> [critical_issues |-> 0, improvements |-> 0,
                          missing_skills |-> 0, keywords_found |-> 0],
   jd_required_keywords |-> <<>>,
   jd_optional_keywords |-> <<>>,
   resume_keywords_found |-> <<>>,
   resume_keywords_missing |-> <<>>,
   weak_language_phrases |-> <<>>,
   low_context_phrases |-> <<>>,
   technical_skills |-> <<>>,
   soft_skills |-> <<>>,
   ats_suggestions |-> <<>>]

Returned(value) == [raised |-> "", value |-> value]

Raised(exception) == [raised |-> exception, value |-> <<>>]

(* analyze_with_gemini for one outcome of the external model: no model     *)
(* available, generate_content raising, or a reply text.                   *)
analyze_with_gemini(reply) ==
  IF reply.kind = "no_model" THEN Returned(default_analysis)
  ELSE CHOOSE res \in
         {IF gemini_error(data) # "" THEN Raised(gemini_error(data))
          ELSE Returned(gemini_normalized(data, "gemini")) :
          data \in {IF reply.kind = "exception" THEN JObj(DEFAULT)
                    ELSE _pull_json(reply.text)}} : TRUE

----------------------------------------------------------------------------
(* gemini_model_manager.py: GeminiModelManager.  The manager is one global *)
(* object shared by the requests the server handles; each thread of        *)
(* Threads runs get_model or get_working_model_name one statement that     *)
(* touches the shared fields at a time.                                    *)

(* Calls one thread makes *)
MaxCalls == 2

Threads == {1, 2}

available_models ==
  <<"gemini-2.5-flash", "gemini-2.5-pro", "gemini-2.5-flash-lite",
    "gemini-2.0-flash-001", "gemini-2.0-flash-lite-001",
    "gemini-1.5-flash", "gemini-1.5-pro", "gemini-1.5-flash-8b",
    "gemini-1.0-pro", "gemini-pro", "models/gemini-pro">>

(* The value None of _working_model and of a returned name *)
NoName == "None"

(* The value None of _model_instance and of a returned model *)
NoInstance == [name |-> NoName, thread |-> 0, call |-> 0, slot |-> 0]

(* genai.GenerativeModel(model_name, ...): a new object on every probe,    *)
(* told apart by the thread, the call and the position that created it.    *)
GenerativeModel(model_name, t, call, slot) ==
  [name |-> model_name, thread |-> t, call |-> call, slot |-> slot]

(* models_to_try, lines 56-62 *)
models_to_try_builtin_first(preferred_model) ==
  IF preferred_model # "auto" THEN available_models \o <<preferred_model>>
  ELSE available_models

models_to_try(preferred_model) ==
  IF preferred_model # "auto" THEN <<preferred_model>> \o available_models
  ELSE available_models

IdleThread ==
  [pc |-> "idle", fn |-> "none", calls |-> 0, i |-> 0, model |-> NoInstance,
   last |-> "none", probed |-> 0, ret_model |-> NoInstance, ret_name |-> NoName]

(* The manager after __init__, lines 9-39 *)
NewManager(preferred_model) ==
  [preferred_model |-> preferred_model,
   _working_model |-> NoName,
   _model_instance |-> NoInstance,
   GEMINI_WORKING_MODEL |-> NoName,
   threads |-> [t \in Threads |-> IdleThread]]

IdleManager == NewManager("auto")

(* The thread after get_model returned m: to its caller outside the        *)
(* manager, or to line 101 of get_working_model_name.                      *)
get_model_returns(th, m) ==
  IF th.fn = "get_model"
  THEN [th EXCEPT !.pc = "done", !.ret_model = m]
  ELSE IF m = NoInstance
       THEN [th EXCEPT !.pc = "done", !.ret_model = m, !.ret_name = NoName]
       ELSE [th EXCEPT !.pc = "line103", !.ret_model = m]

----------------------------------------------------------------------------
(* keyword_matcher.py called with Python values: the term list is None or  *)
(* a list whose entries are strings, None or numbers.                      *)

(* (term or "") *)
py_or_empty(raw) == IF py_truthy(raw) THEN raw ELSE JStr(<<>>)

(* The exception canonical(raw) raises, "" when it raises none: .strip()   *)
(* exists on strings only.                                                 *)
canonical_error(raw) == IF py_or_empty(raw).t = "str" THEN "" ELSE "AttributeError"

(* terms or [] *)
terms_or_empty(terms) == IF py_truthy(terms) THEN terms.v ELSE <<>>

(* present_missing_with_surface(text, terms, synonyms) on Python values:   *)
(* the loop raises at the first entry canonical() raises for.              *)
present_missing_call(text, terms, synonyms) ==
  LET items == terms_or_empty(terms)
      error == FirstError([i \in 1..Len(items) |-> canonical_error(items[i])])
  IN  IF error # "" THEN Raised(error)
      ELSE Returned(present_missing_with_surface(
                      text, [i \in 1..Len(items) |-> py_or_empty(items[i]).v], synonyms))

----------------------------------------------------------------------------
(* Inputs of the matcher: every text over MatchAlphabet up to MaxTextLen,  *)
(* the two scenario texts of the specification, and every term list up to  *)
(* MaxTerms over MatchTermPool (raw terms, before canonical()).            *)

SeqsUpTo(A, n) == UNION {[1..k -> A] : k \in 0..n}

KwPython == <<"p","y","t","h","o","n">>

KwSql == <<"s","q","l">>

KwGo == <<"g","o">>

KwZed == <<"z","e","d">>

MatchAlphabet == {"a", "b", "B", " ", "-"}

TextPowerBI == <<"B","u","i","l","t"," ","d","a","s","h","b","o","a","r","d","s"," ","i","n"," ","P","o","w","e","r","B","I">>

TextPython == <<"E","x","p","e","r","i","e","n","c","e","d"," ","P","y","t","h","o","n"," ","d","e","v","e","l","o","p","e","r",","," ","n","o"," ","d","a","t","a","b","a","s","e"," ","s","k","i","l","l","s">>

TermPowerBi == <<"p","o","w","e","r"," ","b","i">>

MatchTexts == SeqsUpTo(MatchAlphabet, MaxTextLen) \cup {TextPowerBI, TextPython}

MatchTermPool ==
  { <<"a"," ","b">>, <<"b">>, <<" ","B"," ">>, <<"-">>,
    TermPowerBi, <<"p","y","t","h","o","n">>, <<"s","q","l">> }

MatchTermLists ==
  SeqsUpTo(MatchTermPool, MaxTerms)
    \cup {<<<<"p","y","t","h","o","n">>, <<"s","q","l">>>>, <<<<"b">>, <<" ","B"," ">>>>}


IdleMatcher == [pc |-> "idle", text |-> <<>>, terms |-> <<>>,
                present |-> {}, missing |-> {}, surfaces |-> <<>>]

IdleHl == [pc |-> "idle", text |-> <<>>, good |-> <<>>, critical |-> <<>>,
           medium |-> <<>>, low |-> <<>>, out |-> <<>>, repl |-> <<>>]

IdleScorer == [pc |-> "idle", pr |-> 0, mr |-> 0, po |-> 0, mo |-> 0,
               pt |-> 0, mt |-> 0, ps |-> 0, ms |-> 0,
               critical |-> 0, weak |-> 0, low |-> 0, ats_score |-> 0]

(* The empty session dictionary *)
IdleSession == <<>>

IdleResponse == [route |-> "none", kind |-> "none", target |-> "none"]

IdleGemini == [pc |-> "idle"]

(* What has happened in the session since the last GET /: a non-empty     *)
(* resume was stored, and after it a job description was processed.       *)
IdleHistory == [resume_stored |-> FALSE, jd_processed |-> FALSE]

InitMatch ==
  /\ matcher \in {[pc |-> "call", text |-> x, terms |-> ts,
                   present |-> {}, missing |-> {}, surfaces |-> <<>>] :
                  x \in MatchTexts, ts \in MatchTermLists}
  /\ hl = IdleHl
  /\ scorer = IdleScorer
  /\ session = IdleSession
  /\ response = IdleResponse
  /\ gemini = IdleGemini
  /\ history = IdleHistory
  /\ manager = IdleManager

(* present_missing_with_surface(text, terms) *)
PresentMissingWithSurface ==
  /\ matcher.pc = "call"
  /\ LET r == present_missing_with_surface(matcher.text, matcher.terms, <<>>)
     IN  matcher' = [matcher EXCEPT !.pc = "done",
                                    !.present = r.present,
                                    !.missing = r.missing,
                                    !.surfaces = r.surfaces]
  /\ UNCHANGED <<hl, scorer, gemini, session, response, history, manager>>

NextMatch == PresentMissingWithSurface

SpecMatch == InitMatch /\ [][NextMatch]_vars

----------------------------------------------------------------------------
(* Claims about the matcher.                                               *)

IsNonEmpty(x) == x # <<>>

NonEmptyTokens(v) == SelectSeq(re_split_seps(v), IsNonEmpty)

DeclaredForms(t) == {t} \cup {SYNONYMS_get(t)[i] : i \in 1..Len(SYNONYMS_get(t))}

Delimited(text, i, j) ==
  /\ i = 1 \/ ~IsWord(text[i - 1])
  /\ j = Len(text) \/ ~IsWord(text[j + 1])

(* s is the tokens in order, joined by runs of zero or more separators.    *)
RECURSIVE FlexEq(_, _)
FlexEq(s, toks) ==
  IF Len(toks) = 1 THEN str_lower(s) = toks[1]
  ELSE LET n == Len(toks[1])
       IN  /\ Len(s) >= n
           /\ str_lower(SubSeq(s, 1, n)) = toks[1]
           /\ \E k \in n..Len(s) :
                /\ \A x \in (n + 1)..k : IsSepChar(s[x])
                /\ FlexEq(SubSeq(s, k + 1, Len(s)), Tail(toks))

(* A case-insensitive occurrence of the term or of one of its declared     *)
(* variants, delimited by non-word characters or string edges.             *)
Occurs(text, t) ==
  \E i \in 1..Len(text) : \E j \in i..Len(text) :
    /\ Delimited(text, i, j)
    /\ \E v \in DeclaredForms(t) :
         \/ str_lower(SubSeq(text, i, j)) = v
         \/ /\ Len(NonEmptyTokens(v)) >= 2
            /\ FlexEq(SubSeq(text, i, j), NonEmptyTokens(v))

AnyPatternMatches(text, t) ==
  LET ps == compile_patterns_for_term(t)
  IN  \E k \in 1..Len(ps) : re_search(ps[k], text) # NoMatch

MatchedTerms == {canonical(matcher.terms[k]) : k \in 1..Len(matcher.terms)} \ {<<>>}

(* C1: a term is in the present set iff a case-insensitive, delimited      *)
(* occurrence of the term or of one of its declared variants exists in the *)
(* text (and then one of its compiled patterns matches); otherwise it is   *)
(* in the missing set.                                                     *)
C1_PresentIffOccurs ==
  matcher.pc = "done" =>
    \A t \in MatchedTerms :
      /\ (t \in matcher.present) <=> Occurs(matcher.text, t)
      /\ (t \in matcher.present) => AnyPatternMatches(matcher.text, t)
      /\ (t \notin matcher.present) <=> (t \in matcher.missing)

IsSubstringAt(text, s, i) ==
  /\ i + Len(s) - 1 <= Len(text)
  /\ SubSeq(text, i, i + Len(s) - 1) = s

(* C2: the surface of a present term, keyed by the canonical term, is a    *)
(* non-empty substring of the text in its original casing and spacing, and *)
(* it is what the first pattern in variant order that matches the text     *)
(* matched; 'power bi' on 'Built dashboards in PowerBI' gives 'PowerBI'.   *)
C2_SurfaceIsFirstMatch ==
  matcher.pc = "done" =>
    /\ DOMAIN matcher.surfaces = matcher.present
    /\ \A t \in matcher.present :
         LET s     == matcher.surfaces[t]
             ps    == compile_patterns_for_term(t)
             first == SetMin({k \in 1..Len(ps) : re_search(ps[k], matcher.text) # NoMatch})
             at    == re_search(ps[first], matcher.text).start
         IN  /\ s # <<>>
             /\ IsSubstringAt(matcher.text, s, at)
             /\ re_match_at(ps[first], s, 1) = Len(s) + 1
    /\ (matcher.text = TextPowerBI /\ TermPowerBi \in MatchedTerms) =>
         /\ TermPowerBi \in matcher.present
         /\ matcher.surfaces[TermPowerBi] = <<"P","o","w","e","r","B","I">>

C2_Witness ==
  /\ matcher.pc = "done"
  /\ matcher.text = TextPowerBI
  /\ TermPowerBi \in matcher.present
  /\ matcher.surfaces[TermPowerBi] = <<"P","o","w","e","r","B","I">>

(* C19: the result is a partition: present and missing are disjoint, their *)
(* union is the set of non-empty canonical forms of the input terms        *)
(* (duplicates and case variants are one entry), the keys of the surface   *)
(* map are the present set and every surface is a non-empty string.        *)
C19_Partition ==
  matcher.pc = "done" =>
    /\ matcher.present \cap matcher.missing = {}
    /\ matcher.present \cup matcher.missing = MatchedTerms
    /\ DOMAIN matcher.surfaces = matcher.present
    /\ \A t \in matcher.present : matcher.surfaces[t] # <<>>

C19_Witness ==
  /\ matcher.pc = "done"
  /\ matcher.terms = <<KwPython, KwSql>>
  /\ matcher.present = {KwPython}
  /\ matcher.missing = {KwSql}
  /\ matcher.surfaces[KwPython] = <<"P","y","t","h","o","n">>

----------------------------------------------------------------------------
(* Calls of the matcher with Python values: a text, a term list that is    *)
(* None or a list of up to MaxEntries entries of EntryPool, and a synonyms *)
(* mapping (None, or the role-aware aliases of a term).                    *)

MaxEntries == 2

KwPy == <<"p","y">>

TextPy == <<"p","y"," ","s","q","l">>

EntryTexts == {TextPython, TextPy, <<>>}

EntryPool ==
  {JStr(KwPython), JStr(KwSql), JStr(<<>>), JStr(<<" ", " ">>), JNull, JInt(0), JInt(5)}

EntryLists == {JNull} \cup {JArr(items) : items \in SeqsUpTo(EntryPool, MaxEntries)}

NoSynonyms == <<>>

(* get_role_synonyms for the term python: its deterministic alias py *)
RoleSynonyms == (KwPython :> <<KwPy>>)

EntrySynonyms == {NoSynonyms, RoleSynonyms}

InitEntries ==
  /\ matcher \in {[pc |-> "call", text |-> x, terms |-> ts, synonyms |-> syn,
                   result |-> Returned(EmptyResult)] :
                  x \in EntryTexts, ts \in EntryLists, syn \in EntrySynonyms}
  /\ hl = IdleHl
  /\ scorer = IdleScorer
  /\ session = IdleSession
  /\ response = IdleResponse
  /\ gemini = IdleGemini
  /\ history = IdleHistory
  /\ manager = IdleManager

(* present_missing_with_surface(text, terms, synonyms) *)
PresentMissingCall ==
  /\ matcher.pc = "call"
  /\ matcher' = [matcher EXCEPT !.pc = "done",
                                !.result = present_missing_call(matcher.text, matcher.terms,
                                                                matcher.synonyms)]
  /\ UNCHANGED <<hl, scorer, gemini, session, response, history, manager>>

NextEntries == PresentMissingCall

SpecEntries == InitEntries /\ [][NextEntries]_vars

----------------------------------------------------------------------------
(* Claims about calls of the matcher with Python values.                   *)

EntryItems == terms_or_empty(matcher.terms)

(* An entry that is not a non-blank string *)
IsMalformed(raw) == raw.t # "str" \/ str_strip(raw.v) = <<>>

(* The canonical forms of the entries that are non-blank strings *)
WellFormedTerms ==
  {canonical(EntryItems[i].v) : i \in {k \in 1..Len(EntryItems) : ~IsMalformed(EntryItems[k])}}

(* C12: every malformed entry of the term list (a non-string value, an     *)
(* empty or whitespace-only string) is skipped: the call raises nothing    *)
(* and the present and missing sets hold the well-formed terms only.       *)
C12_MalformedEntriesSkipped ==
  matcher.pc = "done" =>
    /\ matcher.result.raised = ""
    /\ matcher.result.value.present \cup matcher.result.value.missing = WellFormedTerms

(* A delimited, case-insensitive occurrence of the alias in the text *)
AliasOccurs(text, alias) ==
  \E i \in 1..Len(text) : \E j \in i..Len(text) :
    /\ Delimited(text, i, j)
    /\ str_lower(SubSeq(text, i, j)) = alias

(* C13: a term whose supplied alias (an entry of the synonyms mapping for  *)
(* that term) occurs in the text is reported present.                      *)
C13_SuppliedAliasesMatch ==
  (matcher.pc = "done" /\ matcher.result.raised = "") =>
    \A t \in WellFormedTerms \cap DOMAIN matcher.synonyms :
      (\E k \in 1..Len(matcher.synonyms[t]) : AliasOccurs(matcher.text, matcher.synonyms[t][k]))
        => t \in matcher.result.value.present

ScenarioPythonSql ==
  /\ matcher.text = TextPython
  /\ matcher.terms = JArr(<<JStr(KwPython), JStr(KwSql)>>)

(* C17: a missing or empty term list raises nothing and gives empty sets;  *)
(* the coverage of a bucket, present / max(1, present + missing), is 0 for *)
(* an empty bucket and lies in [0, 1]; required terms python and sql on    *)
(* 'Experienced Python developer, no database skills' give present =       *)
(* {python}, missing = {sql} and coverage 1/2.                             *)
C17_CoverageOfBucket ==
  matcher.pc = "done" =>
    /\ EntryItems = <<>> =>
         /\ matcher.result.raised = ""
         /\ matcher.result.value.present = {}
         /\ matcher.result.value.missing = {}
    /\ matcher.result.raised = "" =>
         LET p   == Cardinality(matcher.result.value.present)
             m   == Cardinality(matcher.result.value.missing)
             cov == coverage(p, m)
         IN  /\ RatLeq(RatInt(0), cov)
             /\ RatLeq(cov, RatInt(1))
             /\ p + m = 0 => cov = RatInt(0)
             /\ cov.n * IntMax(1, p + m) = p * cov.d
    /\ ScenarioPythonSql =>
         /\ matcher.result.raised = ""
         /\ matcher.result.value.present = {KwPython}
         /\ matcher.result.value.missing = {KwSql}
         /\ coverage(1, 1) = [n |-> 1, d |-> 2]

C17_Witness ==
  /\ matcher.pc = "done"
  /\ ScenarioPythonSql
  /\ matcher.result.value.present = {KwPython}
  /\ matcher.result.value.missing = {KwSql}

----------------------------------------------------------------------------
(* compile_patterns_for_term on one raw term: every key of SYNONYMS and    *)
(* every string over VariantAlphabet up to MaxVariantLen.                  *)

MaxVariantLen == 3

VariantAlphabet == {"a", "S", "\\", ".", " ", "-"}

SynonymKeys == {SYNONYMS[i][1] : i \in 1..Len(SYNONYMS)}

VariantTerms == SynonymKeys \cup SeqsUpTo(VariantAlphabet, MaxVariantLen)

(* compile_patterns_for_term(term): the texts handed to re.compile, or the *)
(* re.error the first failing re.compile raises.                           *)
compile_pattern_texts(term) ==
  LET vs   == term_variants(term)
      pats == [i \in 1..Len(vs) |-> pattern_text(vs[i])]
      error == FirstError([i \in 1..Len(pats) |-> re_compile_error(pats[i])])
  IN  IF error # "" THEN Raised(error) ELSE Returned(pats)

InitVariants ==
  /\ matcher \in {[pc |-> "call", term |-> t, variants |-> <<>>,
                   patterns |-> Returned(<<>>)] : t \in VariantTerms}
  /\ hl = IdleHl
  /\ scorer = IdleScorer
  /\ session = IdleSession
  /\ response = IdleResponse
  /\ gemini = IdleGemini
  /\ history = IdleHistory
  /\ manager = IdleManager

(* compile_patterns_for_term(term), with the list term_variants gave it *)
CompilePatternsForTerm ==
  /\ matcher.pc = "call"
  /\ matcher' = [matcher EXCEPT !.pc = "done",
                                !.variants = term_variants(matcher.term),
                                !.patterns = compile_pattern_texts(matcher.term)]
  /\ UNCHANGED <<hl, scorer, gemini, session, response, history, manager>>

NextVariants == CompilePatternsForTerm

SpecVariants == InitVariants /\ [][NextVariants]_vars

----------------------------------------------------------------------------
(* Claims about term_variants and compile_patterns_for_term.               *)

(* The canonical term followed by its static synonyms *)
LiteralVariants ==
  <<canonical(matcher.term)>> \o SYNONYMS_get(canonical(matcher.term))

IsMultiToken(v) == Len(NonEmptyTokens(v)) >= 2

(* The literal variants, then the two rewrites of every multi-token one *)
ExpectedVariants ==
  LiteralVariants
    \o SeqConcat([i \in 1..Len(LiteralVariants) |->
                    IF IsMultiToken(LiteralVariants[i])
                    THEN <<_token_sep_variant(LiteralVariants[i]),
                           ws_join_variant(LiteralVariants[i])>>
                    ELSE <<>>])

FirstIndex(seq, v) == SetMin({i \in 1..Len(seq) : str_lower(seq[i]) = str_lower(v)})

(* C14: term_variants returns the canonical term first, then the static    *)
(* synonyms, then the separator-flexible and whitespace-joined rewrites of *)
(* every multi-token variant, without case-insensitive duplicates and in   *)
(* first-seen order.                                                       *)
C14_VariantsList ==
  matcher.pc = "done" =>
    LET vs == matcher.variants
    IN  /\ vs # <<>>
        /\ vs[1] = canonical(matcher.term)
        /\ \A i, j \in 1..Len(vs) : i < j => str_lower(vs[i]) # str_lower(vs[j])
        /\ {str_lower(vs[i]) : i \in 1..Len(vs)}
             = {str_lower(ExpectedVariants[i]) : i \in 1..Len(ExpectedVariants)}
        /\ \A i \in 1..Len(vs) :
             /\ \E k \in 1..Len(ExpectedVariants) : ExpectedVariants[k] = vs[i]
             /\ \A j \in 1..Len(vs) :
                  i < j => FirstIndex(ExpectedVariants, vs[i]) < FirstIndex(ExpectedVariants, vs[j])

(* C15: the variant list of a term has at most 8 entries.                  *)
C15_AtMostEightVariants ==
  matcher.pc = "done" => Len(matcher.variants) <= 8

IsLiteralVariant(v) == \E i \in 1..Len(LiteralVariants) : LiteralVariants[i] = v

(* C18: compile_patterns_for_term returns one pattern per variant, in      *)
(* variant order, each between the case-insensitive lookbehind prefix and  *)
(* the lookahead suffix; a literal variant (the term or a synonym) is      *)
(* regex-escaped, only a generated rewrite is compiled as it is.           *)
C18_LiteralVariantsEscaped ==
  matcher.pc = "done" =>
    /\ matcher.patterns.raised = ""
    /\ Len(matcher.patterns.value) = Len(matcher.variants)
    /\ \A i \in 1..Len(matcher.variants) :
         LET v == matcher.variants[i]
         IN  matcher.patterns.value[i] =
               PatPrefix \o (IF IsLiteralVariant(v) THEN re_escape(v) ELSE v) \o PatSuffix

----------------------------------------------------------------------------
(* Inputs of the highlighter: every text over HlAlphabet up to MaxHlLen    *)
(* and, for each of the four buckets, no term or one term of HlTermPool.   *)

HlAlphabet == {"x", "&", "<", "h", "0"}

HlTexts == SeqsUpTo(HlAlphabet, MaxHlLen)

HlTermPool == {<<"x">>, <<"h","0">>, <<"a","m","p">>}

HlBuckets == SeqsUpTo(HlTermPool, 1)

(* Texts and buckets of product names and of terms that hold regex        *)
(* metacharacters                                                         *)
HlScenarioTexts ==
  {<<"C","+","+"," ","i","s"," ","g","r","e","a","t">>,
   <<"a","+","+"," ","b">>,
   <<"P","o","w","e","r"," ","B","I">>,
   <<"p","o","w","e","r"," ","b","i","x">>,
   <<"R","&","D">>,
   <<"a","x","b"," ","a",".","b">>,
   <<"x","x"," ","x","*">>,
   <<"a","|","b"," ","b">>}

HlScenarioBuckets ==
  {<<<<"c","+","+">>>>,
   <<<<"p","o","w","e","r">>, <<"p","o","w","e","r"," ","b","i">>>>,
   <<<<"p","o","w","e","r"," ","b","i">>, <<"p","o","w","e","r">>>>,
   <<<<"r">>, <<"r","&","d">>>>,
   <<<<"a",".","b">>>>,
   <<<<"x","*">>>>,
   <<<<"a","|","b">>>>}

(* Calls with one bucket of the scenario and the other buckets empty *)
HlScenarios ==
  {[pc |-> "call", text |-> x, good |-> g, critical |-> c,
    medium |-> m, low |-> <<>>, out |-> <<>>, repl |-> <<>>] :
   x \in HlScenarioTexts,
   g \in {<<>>} \cup HlScenarioBuckets, c \in {<<>>} \cup HlScenarioBuckets,
   m \in {<<>>} \cup HlScenarioBuckets}

InitHl ==
  /\ hl \in {[pc |-> "call", text |-> x, good |-> g, critical |-> c,
              medium |-> m, low |-> l, out |-> <<>>, repl |-> <<>>] :
             x \in HlTexts, g \in HlBuckets, c \in HlBuckets,
             m \in HlBuckets, l \in HlBuckets}
           \cup {h \in HlScenarios :
                   Cardinality({b \in {"good", "critical", "medium"} : h[b] # <<>>}) = 1}
  /\ matcher = IdleMatcher
  /\ scorer = IdleScorer
  /\ session = IdleSession
  /\ response = IdleResponse
  /\ gemini = IdleGemini
  /\ history = IdleHistory
  /\ manager = IdleManager

(* _highlight(text, good, critical, medium, low) *)
Highlight ==
  /\ hl.pc = "call"
  /\ hl' = [hl EXCEPT
              !.pc = "done",
              !.out = _highlight(hl.text, hl.good, hl.critical, hl.medium, hl.low),
              !.repl = highlight_wrapped(hl.text, hl.good, hl.critical,
                                         hl.medium, hl.low).repl]
  /\ UNCHANGED <<matcher, scorer, gemini, session, response, history, manager>>

NextHl == Highlight

SpecHl == InitHl /\ [][NextHl]_vars

----------------------------------------------------------------------------
(* Claims about the highlighter.                                           *)

SpanOpenTags == {SpanOpen[c] : c \in DOMAIN SpanOpen}

Entities == {<<"&","a","m","p",";">>, <<"&","l","t",";">>, <<"&","g","t",";">>}

EntityAt(out, i) == \E e \in Entities : IsSubstringAt(out, e, i)

(* C3: outside the inserted span tags the output holds no bare '&', '<'    *)
(* or '>': every '<' and '>' of the text is gone and every '&' is the      *)
(* first character of an unbroken &amp;, &lt; or &gt;.                     *)
C3_OutputEscaped ==
  hl.pc = "done" =>
    \A i \in 1..Len(hl.out) :
      /\ hl.out[i] \notin {"<", ">"}
      /\ hl.out[i] = "&" => EntityAt(hl.out, i)

(* The spans of the output: an opening tag, the next closing tag, and the  *)
(* text between them.                                                      *)
SpansOf(out) ==
  {[cls |-> c, body |-> SubSeq(out, i + 1, j - 1)] :
     <<c, i, j>> \in {<<c, i, j>> \in (DOMAIN SpanOpen) \X (1..Len(out)) \X (1..Len(out)) :
                        /\ out[i] = SpanOpen[c]
                        /\ i < j
                        /\ out[j] = SpanClose
                        /\ \A k \in (i + 1)..(j - 1) : out[k] # SpanClose}}

BucketTerms(b) == {str_lower(b[i]) : i \in 1..Len(b)}

(* C4: when a term is given in both the critical and the good bucket and   *)
(* occurs in the text, it is rendered in an hl-critical span and every     *)
(* span that renders it is hl-critical, never hl-good.                     *)
C4_CriticalWins ==
  hl.pc = "done" =>
    \A t \in BucketTerms(hl.critical) \cap BucketTerms(hl.good) :
      re_search(_compile_terms(<<t>>), _escape(hl.text)) # NoMatch =>
        /\ \E sp \in SpansOf(hl.out) : sp.cls = "hl-critical" /\ str_lower(sp.body) = t
        /\ \A sp \in SpansOf(hl.out) : str_lower(sp.body) = t => sp.cls = "hl-critical"

TagDepthOk(out) ==
  \A i \in 1..Len(out) :
    LET opens  == Cardinality({k \in 1..i : out[k] \in SpanOpenTags})
        closes == Cardinality({k \in 1..i : out[k] = SpanClose})
    IN  opens - closes \in {0, 1}

(* C5: a region claimed by an earlier bucket is not matched again: every   *)
(* recorded markup appears in the output, the output has exactly one span  *)
(* per recorded placeholder, spans are not nested, and no recorded         *)
(* placeholder text remains.                                               *)
C5_NoRematch ==
  hl.pc = "done" =>
    /\ \A k \in 1..Len(hl.repl) :
         /\ str_contains(hl.out, hl.repl[k][2])
         /\ ~str_contains(hl.out, hl.repl[k][1])
    /\ Cardinality({i \in 1..Len(hl.out) : hl.out[i] \in SpanOpenTags}) = Len(hl.repl)
    /\ TagDepthOk(hl.out)

----------------------------------------------------------------------------
(* Inputs of the two scores: the sizes of the present and missing sets of  *)
(* the four buckets and the phrase counts.  critical is the number of      *)
(* missing required terms in the priority set, at most mr.                 *)

Counts == 0..MaxCount

SmallCounts == {0, 1}

PhraseCounts == {0, 1, 4, 6}

InitScore ==
  /\ scorer \in {[pc |-> "call", pr |-> a, mr |-> b, po |-> c, mo |-> d,
                  pt |-> e, mt |-> f, ps |-> g, ms |-> h,
                  critical |-> k, weak |-> w, low |-> l, ats_score |-> 0] :
                 a \in Counts, b \in Counts, c \in Counts, d \in Counts,
                 e \in Counts, f \in Counts, g \in SmallCounts, h \in SmallCounts,
                 k \in Counts, w \in PhraseCounts, l \in SmallCounts}
  /\ scorer.critical <= scorer.mr
  /\ matcher = IdleMatcher
  /\ hl = IdleHl
  /\ session = IdleSession
  /\ response = IdleResponse
  /\ gemini = IdleGemini
  /\ history = IdleHistory
  /\ manager = IdleManager

(* The score of process_jd_route *)
ScoreSimple ==
  /\ scorer.pc = "call"
  /\ scorer' = [scorer EXCEPT
                  !.pc = "simple",
                  !.ats_score = simple_score(scorer.pr, scorer.mr, scorer.po, scorer.mo,
                                             scorer.critical, scorer.weak, scorer.low)]
  /\ UNCHANGED <<matcher, hl, gemini, session, response, history, manager>>

(* The score of compute_metrics *)
ScoreWeighted ==
  /\ scorer.pc = "call"
  /\ scorer' = [scorer EXCEPT
                  !.pc = "weighted",
                  !.ats_score = metrics_score(scorer.pr, scorer.mr, scorer.po, scorer.mo,
                                              scorer.pt, scorer.mt, scorer.ps, scorer.ms,
                                              scorer.weak, scorer.low)]
  /\ UNCHANGED <<matcher, hl, gemini, session, response, history, manager>>

NextScore == ScoreSimple \/ ScoreWeighted

SpecScore == InitScore /\ [][NextScore]_vars

----------------------------------------------------------------------------
(* Claims about the scores.  The claims' formulas are stated over integer  *)
(* numerators: with D = lcm of the bucket totals, D * value is an integer. *)

Total(p, m) == IF p + m = 0 THEN 1 ELSE p + m

(* 100 * (0.65 * req + 0.25 * opt) - penalty, as numerator over SimpleDen *)
SimpleDen == Total(scorer.pr, scorer.mr) * Total(scorer.po, scorer.mo)

SimpleNum ==
  65 * scorer.pr * Total(scorer.po, scorer.mo)
  + 25 * scorer.po * Total(scorer.pr, scorer.mr)
  - (5 * scorer.critical
     + 2 * (IF scorer.weak > 3 THEN scorer.weak - 3 ELSE 0)
     + scorer.low) * SimpleDen

(* 100 * (0.50 req + 0.25 opt + 0.20 tech + 0.05 soft), over WeightedDen *)
WeightedDen ==
  Total(scorer.pr, scorer.mr) * Total(scorer.po, scorer.mo)
  * Total(scorer.pt, scorer.mt) * Total(scorer.ps, scorer.ms)

WeightedBaseNum ==
  50 * scorer.pr * (WeightedDen \div Total(scorer.pr, scorer.mr))
  + 25 * scorer.po * (WeightedDen \div Total(scorer.po, scorer.mo))
  + 20 * scorer.pt * (WeightedDen \div Total(scorer.pt, scorer.mt))
  + 5 * scorer.ps * (WeightedDen \div Total(scorer.ps, scorer.ms))

WeightedPenaltySum == 8 * scorer.mr + 3 * scorer.weak + 2 * scorer.low

(* 10 * (base - min(0.7 * base, penalties)), over 10 * WeightedDen *)
WeightedNum10 ==
  IF 10 * WeightedPenaltySum * WeightedDen <= 7 * WeightedBaseNum
  THEN 10 * WeightedBaseNum - 10 * WeightedPenaltySum * WeightedDen
  ELSE 3 * WeightedBaseNum

(* C6: the score of either call path is an integer in [0, 100].            *)
C6_ScoreInRange ==
  scorer.pc \in {"simple", "weighted"} => scorer.ats_score \in 0..100

C6_Witness ==
  /\ scorer.pc = "simple"
  /\ SimpleNum < 0
  /\ scorer.ats_score = 0

(* C7: the weighted-coverage score is base minus capped penalty, rounded   *)
(* to the nearest integer and then clamped to [0, 100].                    *)
C7_WeightedRounded ==
  scorer.pc = "weighted" =>
    LET s == scorer.ats_score
    IN  /\ 2 * Abs(10 * WeightedDen * s - WeightedNum10) <= 10 * WeightedDen

(* C9: the weighted-coverage score is at least the integer part of 30% of  *)
(* the base score.                                                         *)
C9_PenaltyCapped ==
  scorer.pc = "weighted" =>
    10 * WeightedDen * (scorer.ats_score + 1) > 3 * WeightedBaseNum

C9_Witness ==
  /\ scorer.pc = "weighted"
  /\ WeightedBaseNum > 0
  /\ 10 * WeightedPenaltySum * WeightedDen > 7 * WeightedBaseNum
  /\ scorer.ats_score > 0
  /\ 10 * WeightedDen * scorer.ats_score <= 3 * WeightedBaseNum

(* The score of process_jd_route for the scored counts with one required    *)
(* term moved from missing to present and critical priority terms missing.  *)
SimpleScoreMoved(critical) ==
  simple_score(scorer.pr + 1, scorer.mr - 1, scorer.po, scorer.mo,
               critical, scorer.weak, scorer.low)

(* The score of compute_metrics for the scored counts with one required     *)
(* term moved from missing to present.                                      *)
WeightedScoreMoved ==
  metrics_score(scorer.pr + 1, scorer.mr - 1, scorer.po, scorer.mo,
                scorer.pt, scorer.mt, scorer.ps, scorer.ms, scorer.weak, scorer.low)

(* C25: for both formulas, with everything else fixed, the score with one   *)
(* required term moved from missing to present is not lower than the score  *)
(* computed; in process_jd_route the moved term may or may not be one of    *)
(* the priority terms counted as critical.                                  *)
C25_PresentNeverLowers ==
  /\ (scorer.pc = "simple" /\ scorer.mr >= 1) =>
        \A critical \in {scorer.critical - 1, scorer.critical} :
          (critical >= 0 /\ critical <= scorer.mr - 1) =>
            SimpleScoreMoved(critical) >= scorer.ats_score
  /\ (scorer.pc = "weighted" /\ scorer.mr >= 1) =>
        WeightedScoreMoved >= scorer.ats_score

(* C25 witness: a weighted score whose penalty is capped and which rises    *)
(* when one of two missing required terms becomes present.                  *)
C25_Witness ==
  /\ scorer.pc = "weighted"
  /\ scorer.mr = 2
  /\ 10 * WeightedPenaltySum * WeightedDen > 7 * WeightedBaseNum
  /\ WeightedScoreMoved > scorer.ats_score

----------------------------------------------------------------------------
(* analyze_with_gemini over the outcomes of the external model.            *)

NoModel == [kind |-> "no_model"]

CallFails == [kind |-> "exception"]

(* A reply whose whole text is the JSON value j *)
JsonText(j) == [kind |-> "text", text |-> [loads |-> j, braces |-> JNoBraces]]

(* A reply with prose around the JSON object j *)
ProseAround(j) == [kind |-> "text", text |-> [loads |-> JInvalid, braces |-> j]]

NotJson == [kind |-> "text", text |-> [loads |-> JInvalid, braces |-> JNoBraces]]

BadBraces == [kind |-> "text", text |-> [loads |-> JInvalid, braces |-> JInvalid]]

Absent == [t |-> "absent", v |-> 0]

(* The object with the given fields, those that are Absent left out *)
ObjectOf(fields) ==
  JObj([k \in {f \in DOMAIN fields : fields[f] # Absent} |-> fields[k]])

GeminiScores == {Absent, JInt(85), JStr(<<"8","5">>), JStr(<<"h","i","g","h">>), JNull}

GeminiCounts ==
  {Absent, JInt(0), JArr(<<JInt(1)>>), JObj([critical_issues |-> JStr(<<"3">>)]),
   JObj([improvements |-> JNull])}

(* A list whose elements are of every JSON type *)
MixedElements ==
  JArr(<<JStr(<<"S","q","l">>), JBool(TRUE), JArr(<<JStr(<<"G","o">>), JInt(2)>>),
         JObj([k |-> JNull]), JStr(<<"\t","s","Q","L"," ">>), JArr(<<>>), JStr(<<>>)>>)

GeminiKeywords ==
  {Absent, JInt(5), JStr(<<"a","b">>), JNull,
   JArr(<<JStr(<<" ","P","y"," ">>), JInt(1), JNull, JStr(<<"p","y">>), JStr(<<" "," ">>)>>),
   MixedElements}

GeminiPhrases ==
  {Absent, JArr(<<JStr(<<"A"," ">>), JStr(<<"a">>), JStr(<<"A">>), JStr(<<" "," ">>)>>),
   JArr(<<JStr(<<"b"," ","C">>), JBool(FALSE), JStr(<<" ","B"," ","c">>), JNull,
          JStr(<<"b"," ","C"," ">>), JBool(FALSE)>>)}

GeminiObjects ==
  {ObjectOf([ats_score |-> sc, smart_cv_analysis |-> ct,
             jd_required_keywords |-> kw, resume_keywords_missing |-> ms,
             weak_language_phrases |-> ph, soft_skills |-> sk]) :
   sc \in GeminiScores, ct \in GeminiCounts, kw \in GeminiKeywords,
   ms \in {Absent, JInt(7)}, ph \in GeminiPhrases, sk \in {Absent, MixedElements}}

GeminiReplies ==
  {NoModel, CallFails, NotJson, BadBraces}
  \cup {JsonText(j) : j \in {JNull, JInt(42), JStr(<<"h","i">>), JArr(<<>>)} \cup GeminiObjects}
  \cup {ProseAround(ObjectOf([ats_score |-> JInt(85)]))}

InitGemini ==
  /\ gemini \in {[pc |-> "call", reply |-> r] : r \in GeminiReplies}
  /\ matcher = IdleMatcher
  /\ hl = IdleHl
  /\ scorer = IdleScorer
  /\ session = IdleSession
  /\ response = IdleResponse
  /\ history = IdleHistory
  /\ manager = IdleManager

(* analyze_with_gemini(resume_text, jd_text) *)
AnalyzeWithGemini ==
  /\ gemini.pc = "call"
  /\ gemini' = [pc |-> "done", reply |-> gemini.reply,
                result |-> analyze_with_gemini(gemini.reply)]
  /\ UNCHANGED <<matcher, hl, scorer, session, response, history, manager>>

NextGemini == AnalyzeWithGemini

SpecGemini == InitGemini /\ [][NextGemini]_vars

(* The external call failed: no model, an exception, or a text that is not *)
(* JSON.                                                                   *)
GeminiCallFailed ==
  \/ gemini.reply.kind \in {"no_model", "exception"}
  \/ /\ gemini.reply.kind = "text"
     /\ gemini.reply.text.loads = JInvalid
     /\ gemini.reply.text.braces \in {JNoBraces, JInvalid}

(* C11: for every outcome of the external call analyze_with_gemini raises  *)
(* no exception and returns an analysis with every key of the default      *)
(* analysis; when the call failed the keyword lists are empty and the      *)
(* score is zero.                                                          *)
C11_NeverRaises ==
  gemini.pc = "done" =>
    /\ gemini.result.raised = ""
    /\ DOMAIN DEFAULT \subseteq DOMAIN gemini.result.value
    /\ GeminiCallFailed =>
         /\ gemini.result.value.ats_score = 0
         /\ \A i \in 1..Len(KeywordKeys) : gemini.result.value[KeywordKeys[i]] = <<>>

(* The JSON object taken from the reply text, JNoBraces when there is none *)
ObjectObtained ==
  IF gemini.reply.kind # "text" THEN JNoBraces
  ELSE IF gemini.reply.text.loads # JInvalid
       THEN (IF gemini.reply.text.loads.t = "object" THEN gemini.reply.text.loads
             ELSE JNoBraces)
       ELSE IF gemini.reply.text.braces.t = "object" THEN gemini.reply.text.braces
       ELSE JNoBraces

(* Trimmed, lowercase, non-empty strings in strictly ascending order *)
IsNormalizedKeywords(list) ==
  /\ \A i \in 1..Len(list) :
       /\ list[i] # <<>>
       /\ ~IsSpace(list[i][1]) /\ ~IsSpace(list[i][Len(list[i])])
       /\ \A n \in 1..Len(list[i]) : list[i][n] \notin DOMAIN LowerOf
  /\ \A i, n \in 1..Len(list) : i < n => str_less(list[i], list[n])

(* The trimmed text of each element of a list of the reply *)
TrimmedElements(j) == [i \in 1..Len(j.v) |-> str_strip(py_str(j.v[i]))]

(* list holds the non-empty trimmed elements of the reply's list once each, *)
(* in the casing and in the order of their first occurrence.                *)
IsPhrasesKept(list, j) ==
  LET elems == TrimmedElements(j)
      first(x) == SetMin({i \in 1..Len(elems) : elems[i] = x})
  IN  /\ {list[i] : i \in 1..Len(list)} = {elems[i] : i \in 1..Len(elems)} \ {<<>>}
      /\ \A i, n \in 1..Len(list) : i < n => first(list[i]) < first(list[n])

(* The reply object holds nothing but lists under keyword and phrase keys *)
OnlyLists(obj) ==
  \A k \in DOMAIN obj.v :
    /\ obj.v[k].t = "array"
    /\ \/ \E i \in 1..Len(KeywordKeys) : KeywordKeys[i] = k
       \/ \E i \in 1..Len(PhraseKeys) : PhraseKeys[i] = k

(* C24: when a JSON object is obtained from the reply, each of the six      *)
(* keyword lists analyze_with_gemini returns holds only trimmed, lowercase, *)
(* non-empty strings, sorted and without duplicates, whatever the types of  *)
(* the elements in the reply (elements of any type never make the call      *)
(* raise); each phrase list holds the non-empty trimmed elements once, in   *)
(* their casing and first-seen order.                                       *)
C24_ListsNormalized ==
  (gemini.pc = "done" /\ ObjectObtained # JNoBraces) =>
    /\ OnlyLists(ObjectObtained) => gemini.result.raised = ""
    /\ gemini.result.raised = "" =>
         /\ \A i \in 1..Len(KeywordKeys) :
              IsNormalizedKeywords(gemini.result.value[KeywordKeys[i]])
         /\ \A i \in 1..Len(PhraseKeys) :
              LET j == dict_get(ObjectObtained.v, PhraseKeys[i], JArr(<<>>))
              IN  j.t = "array" =>
                    IsPhrasesKept(gemini.result.value[PhraseKeys[i]], j)

(* C24 witness: a reply whose required keywords are strings, a bool, lists  *)
(* and an object and whose phrases repeat in two casings was normalized.    *)
C24_Witness ==
  /\ gemini.pc = "done"
  /\ gemini.result.raised = ""
  /\ ObjectObtained # JNoBraces
  /\ dict_get(ObjectObtained.v, "jd_required_keywords", JNull) = MixedElements
  /\ Len(gemini.result.value.jd_required_keywords) = 5
  /\ Len(gemini.result.value.soft_skills) = 5
  /\ Len(gemini.result.value.weak_language_phrases) = 4

----------------------------------------------------------------------------
(* _highlight on terms that are prefixes of each other and on terms that   *)
(* hold regex metacharacters.                                              *)

(* Names of the buckets and their classes, in the order they are applied *)
BucketNames == <<"critical", "medium", "low", "good">>

BucketClass ==
  [b \in {"critical", "medium", "low", "good"} |->
     CASE b = "critical" -> "hl-critical"
       [] b = "medium"   -> "hl-medium"
       [] b = "low"      -> "hl-low"
       [] b = "good"     -> "hl-good"]

(* The only bucket of the call that holds terms, "" when there are more    *)
(* or none.                                                                *)
OnlyBucket ==
  LET used == {b \in {"critical", "medium", "low", "good"} : hl[b] # <<>>}
  IN  IF Cardinality(used) = 1 THEN CHOOSE b \in used : TRUE ELSE ""

(* term occurs at position p of text as a literal string, ignoring case,   *)
(* with no word character before or after it.                              *)
LiteralAt(text, term, p) ==
  /\ term # <<>>
  /\ p >= 1 /\ p + Len(term) - 1 <= Len(text)
  /\ str_lower(SubSeq(text, p, p + Len(term) - 1)) = str_lower(term)
  /\ p = 1 \/ text[p - 1] \notin WordChars
  /\ p + Len(term) - 1 = Len(text) \/ text[p + Len(term)] \notin WordChars

(* The first position of text where a term of the bucket occurs, 0 if none *)
FirstLiteral(text, terms) ==
  LET ps == {p \in 1..Len(text) : \E i \in 1..Len(terms) : LiteralAt(text, terms[i], p)}
  IN  IF ps = {} THEN 0 ELSE SetMin(ps)

(* The text up to position p unchanged, then the n characters from p       *)
(* wrapped in one span of class cls.                                       *)
WrappedAt(text, p, n, cls) ==
  _escape(SubSeq(text, 1, p - 1))
  \o <<SpanOpen[cls]>> \o _escape(SubSeq(text, p, p + n - 1)) \o <<SpanClose>>

IsPrefixOf(short, long) ==
  /\ Len(short) < Len(long)
  /\ str_lower(SubSeq(long, 1, Len(short))) = str_lower(short)

(* C26: when a call uses one bucket and, at the first position where a     *)
(* term of it occurs, two terms occur of which one is a prefix of the      *)
(* other, the output wraps the longer occurrence in a single span.         *)
C26_LongestFirst ==
  (hl.pc = "done" /\ OnlyBucket # "") =>
    LET terms == hl[OnlyBucket]
        p     == FirstLiteral(hl.text, terms)
    IN  \A i, k \in 1..Len(terms) :
          ( /\ p > 0
            /\ IsPrefixOf(terms[i], terms[k])
            /\ LiteralAt(hl.text, terms[i], p)
            /\ LiteralAt(hl.text, terms[k], p)
            /\ \A n \in 1..Len(terms) :
                 LiteralAt(hl.text, terms[n], p) => Len(terms[n]) <= Len(terms[k]) )
          => LET want == WrappedAt(hl.text, p, Len(terms[k]), BucketClass[OnlyBucket])
             IN  /\ Len(hl.out) >= Len(want)
                 /\ SubSeq(hl.out, 1, Len(want)) = want

(* The literal occurrences of one term in text from position p on, left to *)
(* right and without overlap, each wrapped in a span of class cls.         *)
RECURSIVE LiteralSpans(_, _, _, _)
LiteralSpans(text, term, cls, p) ==
  IF p > Len(text) THEN <<>>
  ELSE IF LiteralAt(text, term, p)
       THEN <<SpanOpen[cls]>> \o SubSeq(text, p, p + Len(term) - 1) \o <<SpanClose>>
            \o LiteralSpans(text, term, cls, p + Len(term))
       ELSE <<text[p]>> \o LiteralSpans(text, term, cls, p + 1)

HasMetaChar(term) ==
  \E i \in 1..Len(term) :
    term[i] \in {".", "^", "$", "*", "+", "?", "{", "}", "[", "]", "\\", "|", "(", ")"}

(* C27: a call with one term that holds regex metacharacters, on a text    *)
(* without &, < and >, wraps exactly the literal occurrences of the term   *)
(* that have no word character before or after them and leaves everything  *)
(* else as it is; 'C++ is great' with critical 'c++' gives one hl-critical *)
(* span around 'C++', and 'a++ b' gives no span.                           *)
C27_LiteralTerms ==
  ( /\ hl.pc = "done"
    /\ OnlyBucket # ""
    /\ \A i \in 1..Len(hl.text) : hl.text[i] \notin {"&", "<", ">"} ) =>
    LET terms == hl[OnlyBucket]
    IN  (Len(terms) = 1 /\ HasMetaChar(terms[1])) =>
          hl.out = LiteralSpans(hl.text, terms[1], BucketClass[OnlyBucket], 1)

(* C27 witness: 'C++ is great' with the critical term 'c++' was rendered   *)
(* with 'C++' in one hl-critical span.                                     *)
C27_Witness ==
  /\ hl.pc = "done"
  /\ hl.critical = <<<<"c","+","+">>>>
  /\ hl.good = <<>> /\ hl.medium = <<>> /\ hl.low = <<>>
  /\ hl.out = <<SpanOpen["hl-critical"], "C", "+", "+", SpanClose,
                " ", "i", "s", " ", "g", "r", "e", "a", "t">>

----------------------------------------------------------------------------
(* The session routes of app.py.  A request carries an optional uploaded   *)
(* file (its extracted text) and an optional form field; the analysis      *)
(* returned by analyze_with_gemini is an input of POST /process_jd.        *)

NoPart == [present |-> FALSE, text |-> <<>>]

Part(t) == [present |-> TRUE, text |-> t]

ResumePython == <<"P","y","t","h","o","n"," ","S","Q","L">>

ResumeGo == <<"g","o"," ","&"," ","s","q","l">>

JdPython == <<"p","y","t","h","o","n"," ","g","o">>

JdSql == <<"s","q","l"," ","<","z","e","d",">">>

ResumeFiles == {NoPart, Part(<<>>), Part(<<"P","y","t","h","o","n","nbsp"," ","S","Q","L","\r","\n">>)}

ResumeForms == {NoPart, Part(<<>>), Part(ResumeGo)}

JdFiles == {NoPart, Part(JdPython)}

JdForms == {Part(<<>>), Part(JdSql)}

WeakAllFound == <<<<"p","y">>, <<"t","h">>, <<"o","n">>, <<"s","q">>>>

WeakThreeFound == <<<<"p","y">>, <<"t","h">>, <<"o","n">>, <<"z","z">>>>

JStrings(items) == JArr([i \in 1..Len(items) |-> JStr(items[i])])

(* The JSON object the model replies with, as the prompt asks for it *)
Analysis(rq, op, weak, low) ==
  JObj([ats_score |-> JInt(99),
        smart_cv_analysis |-> JObj([critical_issues |-> JInt(0), improvements |-> JInt(0)]),
        jd_required_keywords |-> JStrings(rq),
        jd_optional_keywords |-> JStrings(op),
        weak_language_phrases |-> JStrings(weak),
        low_context_phrases |-> JStrings(low),
        technical_skills |-> JStrings(<<KwSql>>),
        soft_skills |-> JStrings(<<KwGo>>)])

(* The outcomes of the external model: four analyses, no model available   *)
(* and a reply that is a JSON array.                                       *)
LlmReplies ==
  {JsonText(Analysis(<<<<"P","y","t","h","o","n"," ">>>>, <<KwSql, KwSql>>, WeakAllFound, <<<<"q","l">>>>)),
   JsonText(Analysis(<<KwSql>>, <<>>, WeakThreeFound, <<>>)),
   JsonText(Analysis(<<KwZed, <<" ","P","Y","T","H","O","N">>, KwGo>>, <<KwSql>>, <<>>, <<>>)),
   JsonText(Analysis(<<KwGo, KwPython, KwZed>>, <<>>, WeakAllFound, <<<<"q","l">>>>)),
   NoModel,
   JsonText(JArr(<<>>))}

Redirect(route, target) == [route |-> route, kind |-> "redirect", target |-> target]

Render(route, template) == [route |-> route, kind |-> "render", target |-> template]

(* The response to a request whose handler raised *)
ServerError(route) == [route |-> route, kind |-> "error", target |-> "500"]

Init ==
  /\ session = <<>>
  /\ response = IdleResponse
  /\ gemini = IdleGemini
  /\ history = IdleHistory
  /\ manager = IdleManager
  /\ matcher = IdleMatcher
  /\ hl = IdleHl
  /\ scorer = IdleScorer

(* GET / *)
index ==
  /\ session' = <<>>
  /\ response' = Render("index", "index.html")
  /\ history' = IdleHistory
  /\ UNCHANGED <<matcher, hl, scorer, gemini, manager>>

(* POST /process_resume *)
process_resume_route ==
  \E file \in ResumeFiles, form \in ResumeForms :
    LET from_file   == IF file.present THEN process_resume(file.text) ELSE <<>>
        resume_text == IF from_file = <<>> /\ form.present THEN form.text ELSE from_file
    IN  /\ IF resume_text # <<>>
           THEN /\ session' = ("resume_text" :> resume_text) @@ session
                /\ response' = Redirect("process_resume", "upload_jd")
                /\ history' = [history EXCEPT !.resume_stored = TRUE]
           ELSE /\ session' = session
                /\ response' = Redirect("process_resume", "index")
                /\ history' = history
        /\ UNCHANGED <<matcher, hl, scorer, gemini, manager>>

(* GET /upload_jd *)
upload_jd ==
  /\ response' = IF "resume_text" \notin DOMAIN session
                 THEN Redirect("upload_jd", "index")
                 ELSE Render("upload_jd", "upload.html")
  /\ UNCHANGED <<session, matcher, hl, scorer, gemini, history, manager>>

(* POST /process_jd.  When analyze_with_gemini raises, the request ends    *)
(* with an internal server error after line 295 has assigned jd_text:      *)
(* Flask saves the session with the error response unless exceptions       *)
(* propagate to the server (debug mode), so the assignment is kept or      *)
(* lost.  history records a job description that was submitted non-empty   *)
(* after a resume had been stored and whose request completed.             *)
process_jd_route ==
  \E file \in JdFiles, form \in JdForms, reply \in LlmReplies :
    \E from_file \in {IF file.present THEN process_jd(file.text) ELSE <<>>} :
      \E jd_text \in {IF from_file = <<>> /\ form.present THEN form.text ELSE from_file} :
        /\ IF jd_text # <<>> /\ "resume_text" \in DOMAIN session
           THEN \E analysis \in {analyze_with_gemini(reply)} :
                  IF analysis.raised # ""
                  THEN /\ session' \in {session, [jd_text |-> jd_text] @@ session}
                       /\ response' = ServerError("process_jd")
                       /\ history' = history
                  ELSE /\ session' =
                            ([jd_text |-> jd_text]
                             @@ process_jd_results(session["resume_text"], jd_text,
                                                   analysis.value))
                            @@ session
                       /\ response' = Redirect("process_jd", "result")
                       /\ history' = [history EXCEPT !.jd_processed = history.resume_stored]
           ELSE /\ session' = session
                /\ response' = Redirect("process_jd", "upload_jd")
                /\ history' = history
        /\ UNCHANGED <<matcher, hl, scorer, gemini, manager>>

(* GET /result with the report rendered whatever the session holds *)
result_always_rendered ==
  /\ response' = Render("result", "result.html")
  /\ UNCHANGED <<session, matcher, hl, scorer, gemini, history, manager>>

(* GET /result *)
result ==
  /\ response' = IF "similarity_score" \notin DOMAIN session
                 THEN Redirect("result", "index")
                 ELSE Render("result", "result.html")
  /\ UNCHANGED <<session, matcher, hl, scorer, gemini, history, manager>>

Next == index \/ process_resume_route \/ upload_jd \/ process_jd_route \/ result

Spec == Init /\ [][Next]_vars

----------------------------------------------------------------------------
(* Claims about the session routes.                                        *)

(* The state right after a successful POST /process_jd: the stored results *)
(* were computed from the resume text now in the session.                  *)
JustProcessed == response = Redirect("process_jd", "result")

SeqRange(q) == {q[i] : i \in 1..Len(q)}

StoredPr == Len(session.analysis.present_required)

StoredMr == Len(session.analysis.missing_required)

StoredPo == Len(session.analysis.present_optional)

StoredMo == Len(session.analysis.missing_optional)

(* missing required terms that belong to the priority skill set *)
StoredCritical ==
  Cardinality(SeqRange(session.analysis.missing_required) \cap HIGH_PRIORITY_SKILLS)

(* weak-language phrases reported by the analysis *)
WeakReported == Len(session.analysis.weak_language_phrases)

(* distinct weak-language phrases that occur in the resume text *)
WeakFound ==
  Cardinality({str_lower(str_strip(ph)) :
                 ph \in {q \in SeqRange(session.analysis.weak_language_phrases) :
                           /\ str_strip(q) # <<>>
                           /\ str_contains(str_lower(session.resume_text),
                                           str_lower(str_strip(q)))}})

LowFound ==
  Cardinality({str_lower(str_strip(ph)) :
                 ph \in {q \in SeqRange(session.analysis.low_context_phrases) :
                           /\ str_strip(q) # <<>>
                           /\ str_contains(str_lower(session.resume_text),
                                           str_lower(str_strip(q)))}})

StoredDen == Total(StoredPr, StoredMr) * Total(StoredPo, StoredMo)

(* 100 * (0.65 * req + 0.25 * opt) - (5 C + 2 max(0, W - 3) + L), as a     *)
(* numerator over StoredDen                                                *)
StoredNum(W) ==
  65 * StoredPr * Total(StoredPo, StoredMo)
  + 25 * StoredPo * Total(StoredPr, StoredMr)
  - (5 * StoredCritical + 2 * (IF W > 3 THEN W - 3 ELSE 0) + LowFound) * StoredDen

(* score is a nearest integer of StoredNum(W) / StoredDen, clamped *)
IsSimplifiedScore(score, W) ==
  \E r \in -200..200 :
    /\ 2 * Abs(StoredDen * r - StoredNum(W)) <= StoredDen
    /\ score = IntMax(0, IntMin(100, r))

(* C8 as stated: the simplified score is the clamped, rounded value of     *)
(* 100*(0.65 req + 0.25 opt) - (5 C + 2 max(0, W-3) + L), with C the       *)
(* missing required terms of the priority skill set, W the number of       *)
(* weak-language phrases and L the number of low-context matches.          *)
C8_WeakPhrasesReported ==
  JustProcessed => IsSimplifiedScore(session.analysis.ats_score, WeakReported)

(* C8 amended: the same formula with W the number of distinct              *)
(* weak-language phrases that occur in the resume text.                    *)
C8_WeakPhrasesFound ==
  JustProcessed => IsSimplifiedScore(session.analysis.ats_score, WeakFound)

C8_Witness ==
  /\ JustProcessed
  /\ StoredCritical >= 1
  /\ StoredMr > StoredCritical
  /\ WeakFound > 3
  /\ LowFound >= 1
  /\ session.analysis.ats_score > 0

LevelOf(score) ==
  IF score >= 80 THEN "ats-great"
  ELSE IF score >= 60 THEN "ats-good"
  ELSE IF score >= 40 THEN "ats-fair"
  ELSE "ats-poor"

ResultKeys ==
  {"jd_text", "similarity_score", "top_matches", "analysis", "resume_hl", "jd_hl", "ats_level"}

(* The results the session holds are those process_jd_route computes from  *)
(* the session's resume text and job description for some analysis.        *)
IsRecomputed(s) ==
  /\ ResultKeys \subseteq DOMAIN s
  /\ \E reply \in LlmReplies : \E analysis \in {analyze_with_gemini(reply)} :
       /\ analysis.raised = ""
       /\ \E r \in {process_jd_results(s["resume_text"], s["jd_text"], analysis.value)} :
            \A k \in DOMAIN r : s[k] = r[k]

(* C16: a POST /process_jd with a non-empty job description in a session   *)
(* holding resume_text leaves the session with jd_text, similarity_score,  *)
(* top_matches, analysis, resume_hl, jd_hl and ats_level all computed from *)
(* that submission and the session's resume text.                          *)
C16_ResultsRecomputed ==
  [][(response' \in {Redirect("process_jd", "result"), ServerError("process_jd")})
       => IsRecomputed(session')]_vars

(* C20: GET /result renders the report exactly when, since the last GET /, *)
(* a non-empty resume was stored and after it a job description was        *)
(* processed, and redirects to the index otherwise; POST /process_jd       *)
(* leaves the session as it is while resume_text is absent.                *)
C20_ResultOnlyAfterResumeAndJd ==
  /\ [](/\ response.route = "result" =>
              /\ response = Render("result", "result.html") <=> history.jd_processed
              /\ response = Redirect("result", "index") <=> ~history.jd_processed
        /\ history.jd_processed => history.resume_stored
        /\ history.resume_stored <=> "resume_text" \in DOMAIN session)
  /\ [][(response'.route = "process_jd" /\ "resume_text" \notin DOMAIN session)
          => session' = session]_vars

C20_Witness ==
  /\ response = Render("result", "result.html")
  /\ history.resume_stored
  /\ history.jd_processed

(* C21: whenever results are stored (similarity_score is in the session),  *)
(* the stored analysis, ats_level, highlights and similarity_score are the *)
(* ones computed from the resume_text and jd_text the session holds now.   *)
C21_ResultsMatchSession ==
  "similarity_score" \in DOMAIN session => IsRecomputed(session)

----------------------------------------------------------------------------
(* The model manager under two request threads.  GEMINI_MODEL is auto, a   *)
(* name outside the built-in list or a name of the list; every probe ends  *)
(* with the expected answer, another answer or an exception.               *)

PreferredModels == {"auto", "gemini-exp", "gemini-pro"}

ProbeOutcomes == {"ok", "wrong", "exception"}

InitManager ==
  /\ manager \in {NewManager(p) : p \in PreferredModels}
  /\ matcher = IdleMatcher
  /\ hl = IdleHl
  /\ scorer = IdleScorer
  /\ gemini = IdleGemini
  /\ session = IdleSession
  /\ response = IdleResponse
  /\ history = IdleHistory

SetThread(t, th) == manager' = [manager EXCEPT !.threads[t] = th]

(* A caller enters get_model() *)
CallGetModel(t) ==
  LET th == manager.threads[t]
  IN  /\ th.pc = "idle"
      /\ th.calls < MaxCalls
      /\ SetThread(t, [IdleThread EXCEPT !.pc = "line52", !.fn = "get_model",
                                         !.calls = th.calls + 1])

(* A caller enters get_working_model_name() *)
CallGetWorkingModelName(t) ==
  LET th == manager.threads[t]
  IN  /\ th.pc = "idle"
      /\ th.calls < MaxCalls
      /\ SetThread(t, [IdleThread EXCEPT !.pc = "line99", !.fn = "get_working_model_name",
                                         !.calls = th.calls + 1])

(* Lines 99-103: the cached name, or get_model() when there is none *)
Line99(t) ==
  LET th == manager.threads[t]
  IN  /\ th.pc = "line99"
      /\ IF manager._working_model = NoName
         THEN SetThread(t, [th EXCEPT !.pc = "line52"])
         ELSE SetThread(t, [th EXCEPT !.pc = "done", !.ret_name = manager._working_model])

(* Lines 52-62: the cached instance, or the start of the loop *)
Line52(t) ==
  LET th == manager.threads[t]
  IN  /\ th.pc = "line52"
      /\ IF manager._model_instance # NoInstance /\ manager._working_model # NoName
         THEN SetThread(t, get_model_returns(th, manager._model_instance))
         ELSE SetThread(t, [th EXCEPT !.pc = "probe", !.i = 1])

(* Lines 65-92 for one model_name: the probe and what follows it; after    *)
(* the last candidate has failed, lines 94-95 return None.                 *)
Probe(t) ==
  LET th    == manager.threads[t]
      names == models_to_try(manager.preferred_model)
  IN  /\ th.pc = "probe"
      /\ \E outcome \in ProbeOutcomes :
           LET probed == [th EXCEPT !.last = outcome, !.probed = th.probed + 1]
           IN  IF outcome = "ok"
               THEN SetThread(t, [probed EXCEPT
                      !.pc = "line82",
                      !.model = GenerativeModel(names[th.i], t, th.calls, th.i)])
               ELSE IF th.i < Len(names)
                    THEN SetThread(t, [probed EXCEPT !.i = th.i + 1])
                    ELSE SetThread(t, get_model_returns(probed, NoInstance))

(* Line 82: self._working_model = model_name *)
Line82(t) ==
  LET th == manager.threads[t]
  IN  /\ th.pc = "line82"
      /\ manager' = [manager EXCEPT !._working_model = th.model.name,
                                    !.threads[t] = [th EXCEPT !.pc = "line83"]]

(* Lines 83-88: self._model_instance = model, the environment variable,    *)
(* return model                                                            *)
Line83(t) ==
  LET th == manager.threads[t]
  IN  /\ th.pc = "line83"
      /\ manager' = [manager EXCEPT !._model_instance = th.model,
                                    !.GEMINI_WORKING_MODEL = th.model.name,
                                    !.threads[t] = get_model_returns(th, th.model)]

(* Line 103: return self._working_model *)
Line103(t) ==
  LET th == manager.threads[t]
  IN  /\ th.pc = "line103"
      /\ SetThread(t, [th EXCEPT !.pc = "done", !.ret_name = manager._working_model])

(* The caller has its result *)
Returned_to_caller(t) ==
  LET th == manager.threads[t]
  IN  /\ th.pc = "done"
      /\ SetThread(t, [IdleThread EXCEPT !.calls = th.calls])

NextManager ==
  /\ \E t \in Threads :
       \/ CallGetModel(t)
       \/ CallGetWorkingModelName(t)
       \/ Line99(t)
       \/ Line52(t)
       \/ Probe(t)
       \/ Line82(t)
       \/ Line83(t)
       \/ Line103(t)
       \/ Returned_to_caller(t)
  /\ UNCHANGED <<matcher, hl, scorer, gemini, session, response, history>>

SpecManager == InitManager /\ [][NextManager]_vars

(* The order of preference: the configured model first unless it is "auto", *)
(* then the built-in list from newest to oldest.                            *)
PreferenceOrder ==
  IF manager.preferred_model = "auto" THEN available_models
  ELSE <<manager.preferred_model>> \o available_models

(* What holds of thread t inside and at the end of a get_model call that    *)
(* found no cached model.                                                   *)
C22_InOrder(t) ==
  LET th == manager.threads[t]
  IN  /\ th.pc = "probe" =>
            /\ th.i = th.probed + 1
            /\ th.i <= Len(PreferenceOrder)
            /\ th.probed > 0 => th.last \in {"wrong", "exception"}
      /\ (th.pc \in {"line82", "line83", "line103", "done"} /\ th.probed > 0) =>
            IF th.last = "ok"
            THEN /\ th.model.name = PreferenceOrder[th.probed]
                 /\ th.model.slot = th.probed
                 /\ (th.pc = "done" /\ th.fn = "get_model") => th.ret_model = th.model
            ELSE /\ th.probed = Len(PreferenceOrder)
                 /\ th.pc = "done"
                 /\ th.ret_model = NoInstance
                 /\ th.ret_name = NoName

(* What one step of thread t does to its probing.                           *)
C22_ProbeStep(t) ==
  LET th  == manager.threads[t]
      th2 == manager'.threads[t]
  IN  /\ (th.pc = "probe" /\ th2 # th) =>
            /\ th2.probed = th.probed + 1
            /\ th2.last \in ProbeOutcomes
            /\ th2.last = "ok" =>
                  /\ th2.pc = "line82"
                  /\ th2.model.name = PreferenceOrder[th.i]
            /\ th2.last # "ok" =>
                  /\ manager'._working_model = manager._working_model
                  /\ manager'._model_instance = manager._model_instance
                  /\ IF th.i < Len(PreferenceOrder)
                     THEN th2.pc = "probe" /\ th2.i = th.i + 1
                     ELSE th2.pc = "done"
      /\ th.pc \in {"line82", "line83", "line103"} =>
            /\ th2.pc # "probe"
            /\ th2.probed = th.probed

(* C22: a get_model call that finds no cached model probes the candidates   *)
(* one after the other in preference order (the configured model first      *)
(* unless it is "auto", then the built-in list), returns the first          *)
(* candidate whose probe answers MODEL_TEST_OK and probes nothing after it, *)
(* counts an exception or a wrong answer as the failure of that candidate   *)
(* only, and returns None exactly when every candidate has failed.          *)
C22_ProbesInPreferenceOrder ==
  /\ [](\A t \in Threads : C22_InOrder(t))
  /\ [][\A t \in Threads : C22_ProbeStep(t)]_vars

(* C22 witness: with a configured model, a get_model call has returned the  *)
(* third candidate after the first two failed.                              *)
C22_Witness ==
  /\ manager.preferred_model # "auto"
  /\ \E t \in Threads :
       LET th == manager.threads[t]
       IN  /\ th.pc = "done" /\ th.fn = "get_model"
           /\ th.probed = 3 /\ th.last = "ok"
           /\ th.ret_model.name = available_models[2]

(* No thread is inside get_model or get_working_model_name.                 *)
NoCallInProgress ==
  \A t \in Threads : manager.threads[t].pc \in {"idle", "done"}

(* C23: _working_model is set exactly when _model_instance is set, and the  *)
(* name is the one the instance was created under; a get_model call that    *)
(* finds the cache set returns the cached instance without probing;         *)
(* get_working_model_name returns the cached name; a get_model call that    *)
(* found no working model leaves both fields unset.  Stated of the states   *)
(* in which no call is in progress, where the claim is weakest.             *)
C23_CacheConsistent ==
  NoCallInProgress =>
    /\ manager._working_model # NoName <=> manager._model_instance # NoInstance
    /\ manager._model_instance.name = manager._working_model

----------------------------------------------------------------------------
====
